---- MODULE Spec2Model ----
(***************************************************************************)
(* A model of the agent orchestration loop of manus-replica:               *)
(*   backend/src/services/AgentService.ts  (current revision, lines 1-413) *)
(*   backend/src/services/E2BService.ts    (current revision, 145-363)     *)
(*   backend/src/index.ts                  (WebSocket message handler)     *)
(*                                                                         *)
(* Node runs every handler on one event loop: a handler runs without       *)
(* interruption until it awaits real I/O (the model stream, a remote       *)
(* sandbox call).  The turn's position `pc` therefore distinguishes the    *)
(* await points, where the handlers of other inbound messages (stop,       *)
(* sanitize, reset) may run, from the internal points, where only the turn *)
(* itself can take the next step.                                          *)
(*                                                                         *)
(* Scope: Spec takes a chat message only at Idle (one turn at a time),     *)
(* SpecTransport also while a turn is in progress; the remote calls of one *)
(* invocation of a sandbox operation are one attempt; streams are well     *)
(* formed (contiguous indexes, distinct ids).                              *)
(***************************************************************************)
EXTENDS Integers, Sequences, FiniteSets, TLC

VARIABLES
  conversationHistory, \* AgentService.conversationHistory
  seenToolCallIds,     \* AgentService.seenToolCallIds
  shouldStop,          \* AgentService.shouldStop
  sandbox,             \* E2BService.sandbox (the id of the sandbox it is a handle of)
  sessionId,           \* E2BService.sessionId
  pc,                  \* position of the processMessage handler
  iteration,           \* runThoughtCycle: let iteration
  shouldTerminate,     \* runThoughtCycle: let shouldTerminate
  isToolCall,          \* runThoughtCycle: let isToolCall
  currentMessage,      \* runThoughtCycle: let currentMessage (sequence of chunks)
  hasContent,          \* runThoughtCycle: let hasContent
  toolCalls,           \* runThoughtCycle: let toolCalls
  toolResults,         \* runThoughtCycle: const toolResults
  idx,                 \* position of the for-of loop over toolCalls
  toolCallId,          \* executeToolCall: const toolCallId (uuid of the event)
  reconnectId,         \* resumeSession: the session id handed to Sandbox.reconnect
  attempts,            \* sandbox operations attempted for the current dispatch
  resumes,             \* resumeSession invocations for the current dispatch
  events,              \* StreamResponses passed to the current turn's streamCallback
  rpc,                 \* position of the resetConversation handler
  used,                \* what the environment has supplied so far: its inputs
                       \* (inbound messages, streamed tool calls and contents,
                       \* timeout signals), the tool-call ids issued by the model
                       \* (calls), the uuids drawn (uuids), the remote
                       \* sandboxes created (sandboxes), those of them that
                       \* were closed remotely or signalled a timeout (gone),
                       \* the resumeSession calls that returned absent
                       \* (nulls), and the stop signals received since the
                       \* last processMessage was invoked (stops)
  other,               \* a processMessage invocation begun by a chat message
                       \* that arrived while the turn above was in progress:
                       \* its position and the events passed to its callback
  path,                \* performFileOperation: operation.path (its characters)
  absolutePath,        \* performFileOperation: const absolutePath
  wsRef,               \* ChatInterface: readyState of wsRef.current ("null" before mount)
  isConnected,         \* ChatInterface: the isConnected state
  wire,                \* control messages sent by the page that the server's
                       \* message handler has yet to receive
  stream,              \* runThoughtCycle: the tool-call fragments of the round's
                       \* stream consumed so far
  now,                 \* executeCode: the value Date.now() returns
  filenames,           \* executeCode: the language and temporary file of each
                       \* attempt begun so far
  chatEvents,          \* ChatInterface: the chatEvents state
  isThinking,          \* ChatInterface: the isThinking state
  received             \* the turns the page has started and the StreamResponses
                       \* it has received for the latest of them

agentVars == <<conversationHistory, seenToolCallIds, shouldStop>>
e2bVars   == <<sandbox, sessionId>>
cycleVars == <<iteration, shouldTerminate, isToolCall>>
roundVars == <<currentMessage, hasContent, toolCalls, toolResults, idx>>
callVars  == <<toolCallId, reconnectId, attempts, resumes>>
\* the variables of the parts studied on their own
pathVars == <<path, absolutePath>>
clientVars == <<wsRef, isConnected, wire>>
streamVars == <<stream>>
codeVars == <<now, filenames>>
uiVars == <<chatEvents, isThinking, received>>
unitVars == <<pathVars, clientVars, streamVars, codeVars, uiVars>>

vars == <<agentVars, e2bVars, pc, cycleVars, roundVars, callVars, events, rpc, other, used,
         unitVars>>

(***************************************************************************)
(* Bounds of the model and constants of the program.                       *)
(***************************************************************************)
\* The environment supplies at most MaxInputs inputs in a run.  An input is an
\* inbound message (chat, stop, sanitize, reset), a tool call or the content
\* streamed by the model in a round, or a timeout signal of the remote sandbox.
MaxInputs == 4

maxIterations == 10

NoId == 0  \* null in an id-valued field (sandbox, sessionId, tool_call_id)

(***************************************************************************)
(* Texts.  A string the program concatenates is a sequence of its chunks.  *)
(***************************************************************************)
\* AgentService.ts 192 (the text follows a U+1F6D1 sign) and 197
StoppedText == <<"Thought cycle stopped by user.">>
MaxIterationsText ==
  <<"I've reached the maximum number of iterations. The task may need to be broken down further or requires manual intervention.">>
ProcessErrorText == "Failed to process message"
DefaultSummary == "Task completed"

(***************************************************************************)
(* What the model-call capability may stream back in one round: the        *)
(* content chunks and the tool calls (name and accumulated argument        *)
(* string), in stream index order.                                         *)
(***************************************************************************)
ModelContents == { <<>>, <<"Here are ", "the files.">> }

\* the inputs a streamed round counts for
StreamCost(content, batch) == Len(batch) + (IF content # <<>> THEN 1 ELSE 0)

ModelToolCalls ==
  { [name |-> "file_operation", arguments |-> "{type:list,path:/}"],
    [name |-> "terminate",      arguments |-> "{reason:done,summary:ok}"],
    [name |-> "terminate",      arguments |-> "{reason:done,summary:}"],
    [name |-> "browser",        arguments |-> "{command:ls}"],
    [name |-> "shell_command",  arguments |-> "{command:"] }

\* the batches of at most n tool calls
RECURSIVE Batches(_)
Batches(n) ==
  IF n = 0 THEN { <<>> }
  ELSE LET shorter == Batches(n - 1)
       IN shorter \cup { Append(b, c) : b \in { s \in shorter : Len(s) = n - 1 },
                                         c \in ModelToolCalls }

(***************************************************************************)
(* JSON.parse on the argument strings above: the object, or a SyntaxError. *)
(***************************************************************************)
JSONparseThrows(s) ==
  s \notin { "{type:list,path:/}", "{command:ls}", "{language:python,code:print(1)}",
             "{reason:done,summary:ok}", "{reason:done,summary:}", "{reason:done}" }

JSONparse(s) ==
  CASE s = "{type:list,path:/}" -> [type |-> "list", path |-> "/"]
    [] s = "{command:ls}" -> [command |-> "ls"]
    [] s = "{language:python,code:print(1)}" -> [language |-> "python", code |-> "print(1)"]
    [] s = "{reason:done,summary:ok}" -> [reason |-> "done", summary |-> "ok"]
    [] s = "{reason:done,summary:}" -> [reason |-> "done", summary |-> ""]
    [] s = "{reason:done}" -> [reason |-> "done"]

(***************************************************************************)
(* Conversation messages (ChatCompletionMessageParam).                     *)
(***************************************************************************)
NullContent == [null |-> TRUE, text |-> <<>>]
TextContent(t) == [null |-> FALSE, text |-> t]

UserMessage ==
  [role |-> "user", content |-> TextContent(<<"message">>), tool_calls |-> <<>>,
   tool_call_id |-> NoId]

\* AssistantMessage with the text as it is, also when it is empty
AssistantMessageTextAsIs(text, calls) ==
  [role |-> "assistant",
   content |-> TextContent(text),
   tool_calls |-> [j \in DOMAIN calls |->
                    [id |-> calls[j].id, name |-> calls[j].name,
                     arguments |-> calls[j].arguments]],
   tool_call_id |-> NoId]

\* AgentService.ts 124-138: content is `currentMessage || null`
AssistantMessage(text, calls) ==
  [role |-> "assistant",
   content |-> IF text = <<>> THEN NullContent ELSE TextContent(text),
   tool_calls |-> [j \in DOMAIN calls |->
                    [id |-> calls[j].id, name |-> calls[j].name,
                     arguments |-> calls[j].arguments]],
   tool_call_id |-> NoId]

\* AgentService.ts 152-156
ToolMessage(id, result) ==
  [role |-> "tool", content |-> result, tool_calls |-> <<>>, tool_call_id |-> id]

(***************************************************************************)
(* sanitizeConversationHistory (AgentService.ts 379-408).                  *)
(***************************************************************************)
\* the ids collected from the tool_calls of assistant messages
ReferencedIds(h) ==
  UNION { { h[i].tool_calls[j].id : j \in DOMAIN h[i].tool_calls } :
          i \in { k \in DOMAIN h : h[k].role = "assistant" } }

\* the ids collected from the tool messages
AnsweredIds(h) ==
  { h[i].tool_call_id : i \in { k \in DOMAIN h : h[k].role = "tool" /\ h[k].tool_call_id # NoId } }

\* SanitizeKeeps testing tool_call_id on every message that is not an
\* assistant message with tool_calls
SanitizeKeepsUnguarded(msg, toolCallIds, toolMessages) ==
  IF msg.role = "assistant" /\ msg.tool_calls # <<>>
  THEN \A j \in DOMAIN msg.tool_calls : msg.tool_calls[j].id \in toolMessages
  ELSE msg.tool_call_id \in toolCallIds

\* the filter's predicate, given the two sets computed beforehand
SanitizeKeeps(msg, toolCallIds, toolMessages) ==
  IF msg.role = "assistant" /\ msg.tool_calls # <<>>
  THEN \A j \in DOMAIN msg.tool_calls : msg.tool_calls[j].id \in toolMessages
  ELSE IF msg.role = "tool" /\ msg.tool_call_id # NoId
       THEN msg.tool_call_id \in toolCallIds
       ELSE TRUE

Sanitized(h) ==
  LET toolCallIds == ReferencedIds(h)
      toolMessages == AnsweredIds(h)
      Keeps(msg) == SanitizeKeeps(msg, toolCallIds, toolMessages)
  IN SelectSeq(h, Keeps)

(***************************************************************************)
(* StreamResponses (shared StreamResponse type; AgentService.ts emits).    *)
(***************************************************************************)
Thinking(chunk) == [type |-> "thinking", data |-> [content |-> <<chunk>>]]
Message(text) == [type |-> "message", data |-> [content |-> text]]
ErrorEvent == [type |-> "error", data |-> [message |-> ProcessErrorText]]

ToolRunning(uuid, name, args) ==
  [type |-> "tool_call",
   data |-> [id |-> uuid, type |-> name, status |-> "running", input |-> args]]

ToolCompleted(uuid, name, args, result) ==
  [type |-> "tool_call",
   data |-> [id |-> uuid, type |-> name, status |-> "completed", input |-> args,
             output |-> result]]

ToolErrored(uuid, name, args, message) ==
  [type |-> "tool_call",
   data |-> [id |-> uuid, type |-> name, status |-> "error", input |-> args,
             error |-> message]]

(***************************************************************************)
(* Pieces of runThoughtCycle and executeToolCall.                          *)
(***************************************************************************)
\* LoopContinues without the stop flag
LoopContinuesDespiteStop(terminate, iter, stop) ==
  ~terminate /\ iter < maxIterations

\* LoopContinues without the test of the counter
LoopContinuesPastMaximum(terminate, iter, stop) ==
  ~terminate /\ ~stop

\* the while condition (AgentService.ts 67)
LoopContinues(terminate, iter, stop) ==
  ~terminate /\ iter < maxIterations /\ ~stop

\* ExitEvents without the maximum-iterations branch
ExitEventsStopOnly(stop, iter) ==
  IF stop THEN <<Message(StoppedText)>> ELSE <<>>

\* what is emitted after the loop (AgentService.ts 189-199)
ExitEvents(stop, iter) ==
  IF stop THEN <<Message(StoppedText)>>
  ELSE IF iter >= maxIterations THEN <<Message(MaxIterationsText)>>
  ELSE <<>>

\* whether a round without tool calls ends the turn (AgentService.ts 183-185)
TextRoundTerminates(toolCallSeen, content) == ~toolCallSeen

\* whether the for-of loop over the batch stops after this call (AgentService.ts 159-169)
BreaksAfter(name) == name = "terminate"

\* TerminateResult without the default of the summary
TerminateResultAsGiven(args) ==
  [terminated |-> "true", reason |-> args.reason, summary |-> args.summary]

\* the terminate tool's local result (AgentService.ts 326-332)
TerminateResult(args) ==
  [terminated |-> "true",
   reason |-> args.reason,
   summary |-> IF "summary" \in DOMAIN args /\ args.summary # ""
               THEN args.summary ELSE DefaultSummary]

SandboxTools == { "shell_command", "file_operation", "code_execution" }

\* E2BService: isTimeoutError (E2BService.ts 152-154)
TimedOutMessage == "Request timed out"
IsTimeoutError(message) == message = TimedOutMessage

\* SandboxSyncError without the test of the sandbox reference
SandboxSyncErrorIgnoringSession(name, args, sbx) ==
  IF name = "file_operation"
     /\ args.type \notin { "read", "write", "create", "delete", "list" }
  THEN "Unknown file operation"
  ELSE IF name = "code_execution"
          /\ args.language \notin { "python", "javascript", "bash" }
       THEN "Unsupported language"
  ELSE ""

\* the error a sandbox operation throws before any remote call, "" if none
\* (E2BService.ts 201-203, 230-232 and 275-276, 290-292 and 317-318)
SandboxSyncError(name, args, sbx) ==
  IF sbx = NoId THEN "No active session"
  ELSE IF name = "file_operation"
          /\ args.type \notin { "read", "write", "create", "delete", "list" }
       THEN "Unknown file operation"
  ELSE IF name = "code_execution"
          /\ args.language \notin { "python", "javascript", "bash" }
       THEN "Unsupported language"
  ELSE ""

\* what a sandbox operation returns when the remote calls succeed
\* (E2BService.ts 213-217, 250-273, 336-340)
SandboxResult(name, args) ==
  IF name = "file_operation"
  THEN CASE args.type = "read" -> [content |-> "text"]
         [] args.type = "list" -> [files |-> <<"home">>]
         [] OTHER -> [success |-> "true"]
  ELSE [stdout |-> "out", stderr |-> "", exitCode |-> "0"]

\* the result executeToolCall returns from its catch block (AgentService.ts 354-362)
ErrorResult(message) ==
  [error |-> IF IsTimeoutError(message)
             THEN "Operation timed out. The virtual machine session has been recreated and the operation will be retried."
             ELSE message,
   isTimeout |-> IF IsTimeoutError(message) THEN "true" ELSE "false"]

(***************************************************************************)
(* The state after construction (AgentService.ts 10-19, E2BService.ts      *)
(* 149-150): empty history, no sandbox, no turn in progress.               *)
(***************************************************************************)
Init ==
  /\ conversationHistory = <<>>
  /\ seenToolCallIds = {}
  /\ shouldStop = FALSE
  /\ sandbox = NoId
  /\ sessionId = NoId
  /\ pc = "idle"
  /\ iteration = 0
  /\ shouldTerminate = FALSE
  /\ isToolCall = FALSE
  /\ currentMessage = <<>>
  /\ hasContent = FALSE
  /\ toolCalls = <<>>
  /\ toolResults = <<>>
  /\ idx = 0
  /\ toolCallId = NoId
  /\ reconnectId = NoId
  /\ attempts = 0
  /\ resumes = 0
  /\ events = <<>>
  /\ rpc = "none"
  /\ used = [inputs |-> 0, calls |-> 0, uuids |-> 0, sandboxes |-> 0, gone |-> {},
             nulls |-> 0, stops |-> 0]
  /\ other = [pc |-> "none", events |-> <<>>]
  /\ path = <<>>
  /\ absolutePath = <<>>
  /\ wsRef = "null"
  /\ isConnected = FALSE
  /\ wire = <<>>
  /\ stream = <<>>
  /\ now = 0
  /\ filenames = <<>>
  /\ chatEvents = <<>>
  /\ isThinking = FALSE
  /\ received = [turns |-> 0, responses |-> <<>>]

\* the positions at which the turn awaits real I/O (or no turn is in progress):
\* only there can the handler of another inbound message run
AwaitPoints == { "idle", "acquire", "stream", "op", "reconnect", "recreate" }

(***************************************************************************)
(* processMessage (AgentService.ts 21-45) up to the first round.           *)
(***************************************************************************)
\* AgentService.ts 30-36 and 65: the user message is appended and the
\* thought cycle begins by clearing the stop flag
EnterThoughtCycle ==
  /\ conversationHistory' = Append(conversationHistory, UserMessage)
  /\ shouldStop' = FALSE
  /\ pc' = "loop"

\* CreatesSession whatever sandbox is held
CreatesSessionAlways(sbx) == TRUE

\* getOrCreateSession: `if (!this.sandbox)` (E2BService.ts 162)
CreatesSession(sbx) == sbx = NoId

\* index.ts 30-33: a chat message arrives while no turn is in progress.
\* getOrCreateSession (E2BService.ts 161-167) awaits Sandbox.create only
\* when no sandbox is held.
Chat ==
  /\ UNCHANGED <<other, unitVars>>
  /\ pc = "idle"
  /\ used.inputs < MaxInputs
  /\ used' = [used EXCEPT !.inputs = @ + 1, !.stops = 0]
  /\ events' = <<>>
  /\ iteration' = 0 /\ shouldTerminate' = FALSE /\ isToolCall' = FALSE
  /\ currentMessage' = <<>> /\ hasContent' = FALSE /\ toolCalls' = <<>>
  /\ toolResults' = <<>> /\ idx' = 0
  /\ IF CreatesSession(sandbox)
     THEN pc' = "acquire" /\ UNCHANGED <<conversationHistory, shouldStop>>
     ELSE EnterThoughtCycle
  /\ UNCHANGED <<seenToolCallIds, e2bVars, callVars, rpc>>

\* createSession succeeds (E2BService.ts 171-177)
AcquireOk ==
  /\ UNCHANGED <<other, unitVars>>
  /\ pc = "acquire"
  /\ used' = [used EXCEPT !.sandboxes = @ + 1]
  /\ sandbox' = used.sandboxes + 1
  /\ sessionId' = used.sandboxes + 1
  /\ EnterThoughtCycle
  /\ UNCHANGED <<seenToolCallIds, cycleVars, roundVars, callVars, events, rpc>>

\* AcquireFails with the user message pushed before the session is acquired
AcquireFailsAfterPush ==
  /\ UNCHANGED <<other, unitVars>>
  /\ pc = "acquire"
  /\ conversationHistory' = Append(conversationHistory, UserMessage)
  /\ events' = Append(events, ErrorEvent)
  /\ pc' = "idle"
  /\ UNCHANGED <<seenToolCallIds, shouldStop, e2bVars, cycleVars, roundVars, callVars,
                 rpc, used>>

\* createSession throws (E2BService.ts 178-181), caught at AgentService.ts 38-44
AcquireFails ==
  /\ UNCHANGED <<other, unitVars>>
  /\ pc = "acquire"
  /\ events' = Append(events, ErrorEvent)
  /\ pc' = "idle"
  /\ UNCHANGED <<agentVars, e2bVars, cycleVars, roundVars, callVars, rpc, used>>

(***************************************************************************)
(* runThoughtCycle (AgentService.ts 58-200).                               *)
(***************************************************************************)
\* AgentService.ts 67-86: the loop condition holds, a round starts and
\* awaits the model stream
StartRound ==
  /\ UNCHANGED <<other, unitVars>>
  /\ pc = "loop"
  /\ LoopContinues(shouldTerminate, iteration, shouldStop)
  /\ iteration' = iteration + 1
  /\ pc' = "stream"
  /\ UNCHANGED <<agentVars, e2bVars, shouldTerminate, isToolCall, roundVars,
                 callVars, events, rpc, used>>

\* AgentService.ts 67 and 189-199: the loop ends and processMessage returns
ExitLoop ==
  /\ UNCHANGED <<other, unitVars>>
  /\ pc = "loop"
  /\ ~LoopContinues(shouldTerminate, iteration, shouldStop)
  /\ events' = events \o ExitEvents(shouldStop, iteration)
  /\ pc' = "idle"
  /\ UNCHANGED <<agentVars, e2bVars, cycleVars, roundVars, callVars, rpc, used>>

\* AgentService.ts 88-141 and 174-186: the stream ends; content and tool
\* calls were accumulated, the assistant message is appended, and a round
\* without tool calls is finished
StreamReturns ==
  /\ UNCHANGED <<other, unitVars>>
  /\ pc = "stream"
  /\ \E content \in ModelContents, batch \in Batches(MaxInputs - used.inputs) :
       LET calls == [j \in 1..Len(batch) |->
                      [id |-> used.calls + j, name |-> batch[j].name,
                       arguments |-> batch[j].arguments]]
           thought == events \o [k \in 1..Len(content) |-> Thinking(content[k])]
           content_seen == content # <<>>
       IN /\ used.inputs + StreamCost(content, batch) <= MaxInputs
          /\ used' = [used EXCEPT !.calls = @ + Len(batch),
                                   !.inputs = @ + StreamCost(content, batch)]
          /\ currentMessage' = content
          /\ hasContent' = content_seen
          /\ toolCalls' = calls
          /\ conversationHistory' =
               IF content_seen \/ Len(calls) > 0
               THEN Append(conversationHistory, AssistantMessage(content, calls))
               ELSE conversationHistory
          /\ IF Len(calls) > 0
             THEN /\ toolResults' = <<>>
                  /\ idx' = 1
                  /\ pc' = "dispatch"
                  /\ events' = thought
                  /\ UNCHANGED shouldTerminate
             ELSE /\ events' = IF content_seen THEN Append(thought, Message(content))
                                ELSE thought
                  /\ shouldTerminate' = IF TextRoundTerminates(isToolCall, content_seen)
                                         THEN TRUE ELSE shouldTerminate
                  /\ pc' = "loop"
                  /\ UNCHANGED <<toolResults, idx>>
  /\ UNCHANGED <<seenToolCallIds, shouldStop, e2bVars, iteration, isToolCall,
                 callVars, rpc>>

\* StreamFails without the error event of processMessage's catch block
StreamFailsUnreported ==
  /\ UNCHANGED <<other, unitVars>>
  /\ pc = "stream"
  /\ \E content \in ModelContents :
       /\ used.inputs + StreamCost(content, <<>>) <= MaxInputs
       /\ events' = events \o [k \in 1..Len(content) |-> Thinking(content[k])]
       /\ used' = [used EXCEPT !.inputs = @ + StreamCost(content, <<>>)]
  /\ pc' = "idle"
  /\ UNCHANGED <<agentVars, e2bVars, cycleVars, roundVars, callVars, rpc>>

\* the streaming request fails, possibly after some content was streamed
\* (AgentService.ts 80-120 throw, caught at 38-44)
StreamFails ==
  /\ UNCHANGED <<other, unitVars>>
  /\ pc = "stream"
  /\ \E content \in ModelContents :
       /\ used.inputs + StreamCost(content, <<>>) <= MaxInputs
       /\ events' = Append(events \o [k \in 1..Len(content) |-> Thinking(content[k])],
                           ErrorEvent)
       /\ used' = [used EXCEPT !.inputs = @ + StreamCost(content, <<>>)]
  /\ pc' = "idle"
  /\ UNCHANGED <<agentVars, e2bVars, cycleVars, roundVars, callVars, rpc>>

\* AgentService.ts 149-170: executeToolCall returned `result` having emitted
\* `evs`; the result is collected, and a terminate call ends the batch
AfterToolCall(result, evs) ==
  LET tc == toolCalls[idx]
  IN /\ isToolCall' = TRUE
     /\ toolResults' = Append(toolResults, ToolMessage(tc.id, result))
     /\ shouldTerminate' = (shouldTerminate \/ tc.name = "terminate")
     /\ events' = IF tc.name = "terminate" /\ hasContent
                  THEN Append(evs, Message(currentMessage)) ELSE evs
     /\ IF BreaksAfter(tc.name) \/ idx = Len(toolCalls)
        THEN pc' = "flush" /\ idx' = idx
        ELSE pc' = "dispatch" /\ idx' = idx + 1
     /\ toolCallId' = NoId /\ reconnectId' = NoId
     /\ attempts' = 0 /\ resumes' = 0
     /\ UNCHANGED conversationHistory

\* AgentService.ts 337-348
ToolSucceeds(uuid, args, result, evs) ==
  AfterToolCall(result,
                Append(evs, ToolCompleted(uuid, toolCalls[idx].name, args, result)))

\* AgentService.ts 350-376
ToolFails(uuid, args, message, evs) ==
  AfterToolCall(ErrorResult(message),
                Append(evs, ToolErrored(uuid, toolCalls[idx].name, args,
                                        ErrorResult(message).error)))

\* AgentService.ts 147-148 and 287-335: the next tool call of the batch is
\* handed to executeToolCall, which runs until it awaits the sandbox, returns,
\* or throws out of its own catch block (the second JSON.parse at line 370)
Dispatch ==
  /\ UNCHANGED <<other, unitVars>>
  /\ pc = "dispatch"
  /\ LET tc == toolCalls[idx]
         uuid == used.uuids + 1
     IN /\ used' = [used EXCEPT !.uuids = uuid]
        /\ seenToolCallIds' = seenToolCallIds \cup { tc.id }
        /\ IF JSONparseThrows(tc.arguments)
           THEN /\ events' = Append(events, ErrorEvent)
                /\ pc' = "idle"
                /\ UNCHANGED <<conversationHistory, isToolCall, shouldTerminate,
                               toolResults, idx, callVars>>
           ELSE LET args == JSONparse(tc.arguments)
                    running == Append(events, ToolRunning(uuid, tc.name, args))
                    failure == SandboxSyncError(tc.name, args, sandbox)
                IN IF tc.name \in SandboxTools
                   THEN IF failure # ""
                        THEN ToolFails(uuid, args, failure, running)
                        ELSE /\ pc' = "op"
                             /\ events' = running
                             /\ toolCallId' = uuid
                             /\ attempts' = 1
                             /\ resumes' = 0
                             /\ UNCHANGED <<conversationHistory, isToolCall,
                                            shouldTerminate, toolResults, idx,
                                            reconnectId>>
                   ELSE IF tc.name = "terminate"
                        THEN ToolSucceeds(uuid, args, TerminateResult(args), running)
                        ELSE ToolFails(uuid, args, "Unknown tool", running)
  /\ UNCHANGED <<shouldStop, e2bVars, iteration, currentMessage, hasContent,
                 toolCalls, rpc>>

\* Flush appending only the newest of the collected results
FlushNewestOnly ==
  /\ UNCHANGED <<other, unitVars>>
  /\ pc = "flush"
  /\ conversationHistory' = Append(conversationHistory, toolResults[Len(toolResults)])
  /\ toolResults' = <<>>
  /\ idx' = 0
  /\ pc' = "loop"
  /\ UNCHANGED <<seenToolCallIds, shouldStop, e2bVars, cycleVars, currentMessage,
                 hasContent, toolCalls, callVars, events, rpc, used>>

\* AgentService.ts 172-173: the collected results are appended to the history
Flush ==
  /\ UNCHANGED <<other, unitVars>>
  /\ pc = "flush"
  /\ conversationHistory' = conversationHistory \o toolResults
  /\ toolResults' = <<>>
  /\ idx' = 0
  /\ pc' = "loop"
  /\ UNCHANGED <<seenToolCallIds, shouldStop, e2bVars, cycleVars, currentMessage,
                 hasContent, toolCalls, callVars, events, rpc, used>>

(***************************************************************************)
(* The sandbox operation of a dispatch: executeShellCommand,               *)
(* performFileOperation, executeCode (E2BService.ts 199-349).  One attempt *)
(* is the remote calls of one invocation; what is not touched while a      *)
(* dispatch awaits the sandbox is in callFrame.                            *)
(***************************************************************************)
callFrame == <<seenToolCallIds, shouldStop, iteration, currentMessage, hasContent,
               toolCalls, rpc>>

CurrentArgs == JSONparse(toolCalls[idx].arguments)

\* E2BService.ts 222, 282, 345: the operation invokes itself again, holding
\* sandbox `sbx`, after `r` resumeSession calls
RetryOperation(sbx, r) ==
  LET failure == SandboxSyncError(toolCalls[idx].name, CurrentArgs, sbx)
  IN IF failure # ""
     THEN ToolFails(toolCallId, CurrentArgs, failure, events)
     ELSE /\ pc' = "op"
          /\ attempts' = attempts + 1
          /\ resumes' = r
          /\ reconnectId' = NoId
          /\ UNCHANGED <<conversationHistory, isToolCall, shouldTerminate,
                         toolResults, idx, toolCallId, events>>

\* the remote calls of the attempt succeed
OpSucceeds ==
  /\ UNCHANGED <<other, unitVars>>
  /\ pc = "op"
  /\ ToolSucceeds(toolCallId, CurrentArgs,
                  SandboxResult(toolCalls[idx].name, CurrentArgs), events)
  /\ UNCHANGED <<callFrame, e2bVars, used>>

\* a remote call of the attempt throws an error that is no timeout
\* (E2BService.ts 224, 284, 347)
OpFails ==
  /\ UNCHANGED <<other, unitVars>>
  /\ pc = "op"
  /\ ToolFails(toolCallId, CurrentArgs, "Sandbox operation failed", events)
  /\ UNCHANGED <<callFrame, e2bVars, used>>

\* ResumeReconnects whatever session id is held
ResumeReconnectsAlways(sid) == TRUE

\* resumeSession: `if (this.sessionId)` (E2BService.ts 185)
ResumeReconnects(sid) == sid # NoId

\* a remote call of the attempt throws the timeout signal: handleTimeoutError
\* calls resumeSession (E2BService.ts 156-159, 184-197, 219-223)
OpTimesOut ==
  /\ UNCHANGED <<other, unitVars>>
  /\ pc = "op"
  /\ used.inputs < MaxInputs
  /\ used' = [used EXCEPT !.inputs = @ + 1, !.gone = @ \cup ({sandbox} \ {NoId}),
                          !.nulls = IF ResumeReconnects(sessionId) THEN @ ELSE @ + 1]
  /\ IF ResumeReconnects(sessionId)
     THEN /\ pc' = "reconnect"
          /\ reconnectId' = sessionId
          /\ resumes' = resumes + 1
          /\ UNCHANGED <<conversationHistory, isToolCall, shouldTerminate,
                         toolResults, idx, toolCallId, attempts, events>>
     ELSE RetryOperation(sandbox, resumes + 1)
  /\ UNCHANGED <<callFrame, e2bVars>>

\* Sandbox.reconnect succeeds (E2BService.ts 187-189)
ReconnectOk ==
  /\ UNCHANGED <<other, unitVars>>
  /\ pc = "reconnect"
  /\ sandbox' = reconnectId
  /\ RetryOperation(reconnectId, resumes)
  /\ UNCHANGED <<callFrame, sessionId, used>>

\* Sandbox.reconnect throws: resumeSession falls back to createSession
\* (E2BService.ts 190-194)
ReconnectFails ==
  /\ UNCHANGED <<other, unitVars>>
  /\ pc = "reconnect"
  /\ pc' = "recreate"
  /\ reconnectId' = NoId
  /\ UNCHANGED <<agentVars, e2bVars, cycleVars, roundVars, toolCallId, attempts,
                 resumes, events, rpc, used>>

\* the fallback createSession succeeds (E2BService.ts 171-177)
RecreateOk ==
  /\ UNCHANGED <<other, unitVars>>
  /\ pc = "recreate"
  /\ used' = [used EXCEPT !.sandboxes = @ + 1]
  /\ sandbox' = used.sandboxes + 1
  /\ sessionId' = used.sandboxes + 1
  /\ RetryOperation(used.sandboxes + 1, resumes)
  /\ UNCHANGED callFrame

\* the fallback createSession throws (E2BService.ts 178-181): the error leaves
\* resumeSession and the operation's catch block
RecreateFails ==
  /\ UNCHANGED <<other, unitVars>>
  /\ pc = "recreate"
  /\ ToolFails(toolCallId, CurrentArgs, "Failed to create session", events)
  /\ UNCHANGED <<callFrame, e2bVars, used>>

(***************************************************************************)
(* The handlers of the other inbound messages (index.ts 34-45).            *)
(***************************************************************************)
\* stopThoughtCycle (AgentService.ts 410-412); a stop signal that finds the
\* flag set changes nothing and is left out
Stop ==
  /\ UNCHANGED <<other, unitVars>>
  /\ pc \in AwaitPoints
  /\ ~shouldStop
  /\ used.inputs < MaxInputs
  /\ used' = [used EXCEPT !.inputs = @ + 1, !.stops = @ + 1]
  /\ shouldStop' = TRUE
  /\ UNCHANGED <<conversationHistory, seenToolCallIds, e2bVars, pc, cycleVars,
                 roundVars, callVars, events, rpc>>

\* sanitizeConversationHistory (AgentService.ts 379-408)
Sanitize ==
  /\ UNCHANGED <<other, unitVars>>
  /\ pc \in AwaitPoints
  /\ used.inputs < MaxInputs
  /\ used' = [used EXCEPT !.inputs = @ + 1]
  /\ conversationHistory' = Sanitized(conversationHistory)
  /\ UNCHANGED <<seenToolCallIds, shouldStop, e2bVars, pc, cycleVars, roundVars,
                 callVars, events, rpc>>

\* ResetBegin leaving the history and the seen ids as they are
ResetBeginKeepingHistory ==
  /\ UNCHANGED <<other, unitVars>>
  /\ pc \in AwaitPoints
  /\ rpc = "none"
  /\ used.inputs < MaxInputs
  /\ used' = [used EXCEPT !.inputs = @ + 1, !.gone = @ \cup ({sandbox} \ {NoId})]
  /\ rpc' = IF sandbox # NoId THEN "closing" ELSE "creating"
  /\ UNCHANGED <<agentVars, e2bVars, pc, cycleVars, roundVars, callVars, events>>

\* resetConversation (AgentService.ts 47-56) up to its first await:
\* closeSession awaits sandbox.close() when a sandbox is held
\* (E2BService.ts 351-354), else createSession awaits Sandbox.create
ResetBegin ==
  /\ UNCHANGED <<other, unitVars>>
  /\ pc \in AwaitPoints
  /\ rpc = "none"
  /\ used.inputs < MaxInputs
  /\ used' = [used EXCEPT !.inputs = @ + 1, !.gone = @ \cup ({sandbox} \ {NoId})]
  /\ conversationHistory' = <<>>
  /\ seenToolCallIds' = {}
  /\ rpc' = IF sandbox # NoId THEN "closing" ELSE "creating"
  /\ UNCHANGED <<shouldStop, e2bVars, pc, cycleVars, roundVars, callVars, events>>

\* ResetClosed with a failure of sandbox.close() leaving closeSession
ResetCloseThrows ==
  /\ UNCHANGED <<other, unitVars>>
  /\ pc \in AwaitPoints
  /\ rpc = "closing"
  /\ rpc' = "none"
  /\ UNCHANGED <<agentVars, e2bVars, pc, cycleVars, roundVars, callVars, events, used>>

\* sandbox.close() returns or throws (E2BService.ts 353-360)
ResetClosed ==
  /\ UNCHANGED <<other, unitVars>>
  /\ pc \in AwaitPoints
  /\ rpc = "closing"
  /\ sandbox' = NoId
  /\ sessionId' = NoId
  /\ rpc' = "creating"
  /\ UNCHANGED <<agentVars, pc, cycleVars, roundVars, callVars, events, used>>

\* ResetCreateOk without the assignment of the session id
ResetCreateOkWithoutId ==
  /\ UNCHANGED <<other, unitVars>>
  /\ pc \in AwaitPoints
  /\ rpc = "creating"
  /\ used' = [used EXCEPT !.sandboxes = @ + 1]
  /\ sandbox' = used.sandboxes + 1
  /\ rpc' = "none"
  /\ UNCHANGED <<agentVars, sessionId, pc, cycleVars, roundVars, callVars, events>>

\* the reset's createSession succeeds (E2BService.ts 171-177)
ResetCreateOk ==
  /\ UNCHANGED <<other, unitVars>>
  /\ pc \in AwaitPoints
  /\ rpc = "creating"
  /\ used' = [used EXCEPT !.sandboxes = @ + 1]
  /\ sandbox' = used.sandboxes + 1
  /\ sessionId' = used.sandboxes + 1
  /\ rpc' = "none"
  /\ UNCHANGED <<agentVars, pc, cycleVars, roundVars, callVars, events>>

\* the reset's createSession throws (E2BService.ts 178-181, index.ts 46-52)
ResetCreateFails ==
  /\ UNCHANGED <<other, unitVars>>
  /\ pc \in AwaitPoints
  /\ rpc = "creating"
  /\ rpc' = "none"
  /\ UNCHANGED <<agentVars, e2bVars, pc, cycleVars, roundVars, callVars, events,
                 used>>

Next ==
  \/ Chat \/ AcquireOk \/ AcquireFails
  \/ StartRound \/ ExitLoop \/ StreamReturns \/ StreamFails
  \/ Dispatch \/ Flush
  \/ OpSucceeds \/ OpFails \/ OpTimesOut
  \/ ReconnectOk \/ ReconnectFails \/ RecreateOk \/ RecreateFails
  \/ Stop \/ Sanitize
  \/ ResetBegin \/ ResetClosed \/ ResetCreateOk \/ ResetCreateFails

Spec == Init /\ [][Next]_vars

(***************************************************************************)
(* The transport without the restriction to one turn at a time.  The       *)
(* message handler (index.ts 26-45) starts processMessage for every chat   *)
(* message as it arrives; nothing holds a chat back while an earlier       *)
(* processMessage awaits I/O.  `other` is such an invocation; the model    *)
(* streams it text or nothing, and no tool calls.                          *)
(***************************************************************************)
turnVars == <<seenToolCallIds, pc, cycleVars, roundVars, callVars, events, rpc>>

\* AgentService.ts 30-36 and 65, run by the overlapping invocation
OtherEntersThoughtCycle ==
  /\ conversationHistory' = Append(conversationHistory, UserMessage)
  /\ shouldStop' = FALSE

\* index.ts 30-33, AgentService.ts 21-37: a chat message arrives while the
\* turn awaits I/O; its processMessage runs up to its first await
ChatWhileRunning ==
  /\ UNCHANGED unitVars
  /\ pc \in AwaitPoints \ { "idle" }
  /\ other.pc = "none"
  /\ used.inputs < MaxInputs
  /\ used' = [used EXCEPT !.inputs = @ + 1]
  /\ IF CreatesSession(sandbox)
     THEN /\ other' = [pc |-> "acquire", events |-> <<>>]
          /\ UNCHANGED <<conversationHistory, shouldStop>>
     ELSE /\ other' = [pc |-> "stream", events |-> <<>>]
          /\ OtherEntersThoughtCycle
  /\ UNCHANGED <<e2bVars, turnVars>>

\* its createSession succeeds (E2BService.ts 171-177)
OtherAcquireOk ==
  /\ UNCHANGED unitVars
  /\ pc \in AwaitPoints
  /\ other.pc = "acquire"
  /\ used' = [used EXCEPT !.sandboxes = @ + 1]
  /\ sandbox' = used.sandboxes + 1
  /\ sessionId' = used.sandboxes + 1
  /\ OtherEntersThoughtCycle
  /\ other' = [other EXCEPT !.pc = "stream"]
  /\ UNCHANGED turnVars

\* its createSession throws (E2BService.ts 178-181, AgentService.ts 38-44)
OtherAcquireFails ==
  /\ UNCHANGED unitVars
  /\ pc \in AwaitPoints
  /\ other.pc = "acquire"
  /\ other' = [pc |-> "none", events |-> Append(other.events, ErrorEvent)]
  /\ UNCHANGED <<agentVars, e2bVars, turnVars, used>>

\* its first stream ends without tool calls (AgentService.ts 88-141,
\* 174-199): no tool call was seen, so the round ends its turn
OtherStreamReturns ==
  /\ UNCHANGED unitVars
  /\ pc \in AwaitPoints
  /\ other.pc = "stream"
  /\ \E content \in ModelContents :
       LET thought == other.events \o [k \in 1..Len(content) |-> Thinking(content[k])]
           said == IF content # <<>> THEN Append(thought, Message(content)) ELSE thought
       IN /\ used.inputs + StreamCost(content, <<>>) <= MaxInputs
          /\ used' = [used EXCEPT !.inputs = @ + StreamCost(content, <<>>)]
          /\ conversationHistory' =
               IF content # <<>>
               THEN Append(conversationHistory, AssistantMessage(content, <<>>))
               ELSE conversationHistory
          /\ other' = [pc |-> "none", events |-> said \o ExitEvents(shouldStop, 1)]
  /\ UNCHANGED <<seenToolCallIds, shouldStop, e2bVars, turnVars>>

\* its streaming request fails (AgentService.ts 80-120, 38-44)
OtherStreamFails ==
  /\ UNCHANGED unitVars
  /\ pc \in AwaitPoints
  /\ other.pc = "stream"
  /\ other' = [pc |-> "none", events |-> Append(other.events, ErrorEvent)]
  /\ UNCHANGED <<agentVars, e2bVars, turnVars, used>>

NextTransport ==
  \/ Next
  \/ ChatWhileRunning
  \/ OtherAcquireOk \/ OtherAcquireFails
  \/ OtherStreamReturns \/ OtherStreamFails

SpecTransport == Init /\ [][NextTransport]_vars

(***************************************************************************)
(* Observations used by the properties below.                              *)
(***************************************************************************)
Last(q) == q[Len(q)]

\* the tool messages of history h that answer tool-call id `id`
AnswersTo(h, id) == { i \in DOMAIN h : h[i].role = "tool" /\ h[i].tool_call_id = id }

\* every referenced tool call is answered and every answer is referenced
Consistent(h) == ReferencedIds(h) = AnsweredIds(h)

IsTerminal(e) == e.type \in { "message", "error" }

\* the tool_call and message events of an event stream, in order
IsToolOrMessage(e) == e.type \in { "tool_call", "message" }
ToolAndMessageEvents(evs) == SelectSeq(evs, IsToolOrMessage)

\* a round of the current turn dispatched the terminate tool
TerminateCalled ==
  \E i \in DOMAIN events :
    events[i].type = "tool_call" /\ events[i].data.type = "terminate"

\* the 'reached maximum iterations' message events of the current turn
MaxIterationsEvents == { i \in DOMAIN events : events[i] = Message(MaxIterationsText) }

(***************************************************************************)
(* C1.  Whenever a turn has returned to Idle, every tool-call id listed in *)
(* the tool_calls of an assistant message of the history is answered by    *)
(* exactly one tool message with that tool_call_id.                        *)
(* Violated: a batch [terminate, file_operation] leaves the second call    *)
(* unanswered (the for-of loop breaks at line 168), and a call whose       *)
(* arguments are not valid JSON aborts the turn before any result of the   *)
(* round is appended.                                                      *)
(***************************************************************************)
C1_EveryToolCallAnswered ==
  pc = "idle" =>
    \A id \in ReferencedIds(conversationHistory) :
      Cardinality(AnswersTo(conversationHistory, id)) = 1

(***************************************************************************)
(* C2.  When terminate is invoked in a round whose batch holds further     *)
(* tool calls after it, those calls are still dispatched and one result    *)
(* for each is appended to the history: at the point where the round's     *)
(* results are appended (line 173), every call of the batch has a result.  *)
(* Violated: the loop breaks right after the terminate call.               *)
(***************************************************************************)
C2_CallsAfterTerminateAnswered ==
  (pc = "flush" /\ toolCalls[idx].name = "terminate") =>
    \A j \in DOMAIN toolCalls :
      \E k \in DOMAIN toolResults : toolResults[k].tool_call_id = toolCalls[j].id

(***************************************************************************)
(* C3.  For one call of a sandbox operation, the operation is attempted at *)
(* most twice and resumeSession is invoked at most once.                   *)
(* Violated: the retry is a recursive call of the same method, whose own   *)
(* catch block resumes and retries again on a second timeout.              *)
(***************************************************************************)
C3_RetryBounded == attempts <= 2 /\ resumes <= 1

(***************************************************************************)
(* C4.  Within one turn, the events passed to the callback are zero or     *)
(* more thinking/tool_call events followed by at most one terminal message *)
(* or error event: no event follows a message or error event.              *)
(* Violated: a text round after a tool round emits a message and the loop  *)
(* goes on; the stop and maximum-iterations messages follow a round's      *)
(* message.                                                                *)
(***************************************************************************)
C4_EventOrdering ==
  \A i \in DOMAIN events : IsTerminal(events[i]) => i = Len(events)

(***************************************************************************)
(* C5.  For every history the program can hold, the sanitized history is   *)
(* consistent: every tool-call id of a remaining assistant message is      *)
(* answered by a remaining tool message, and every remaining tool          *)
(* message's id is referenced by a remaining assistant message.            *)
(* Violated: both id sets are computed before the filter, so the answers   *)
(* of a dropped assistant message survive it.                              *)
(***************************************************************************)
C5_SanitizedIsConsistent == Consistent(Sanitized(conversationHistory))

(***************************************************************************)
(* C6.  The Sanitizer is idempotent: for every history the program can     *)
(* hold, sanitizing twice yields the same history as sanitizing once.      *)
(* Violated: the second pass drops the tool messages whose assistant       *)
(* message the first pass dropped.                                         *)
(***************************************************************************)
C6_SanitizeIdempotent ==
  Sanitized(Sanitized(conversationHistory)) = Sanitized(conversationHistory)

(***************************************************************************)
(* C7 as stated.  When a turn is back at Idle with the iteration counter   *)
(* at the maximum and no round of it called terminate, exactly one         *)
(* 'reached maximum iterations' message was emitted.                       *)
(* Violated: with a stop signal pending the 'stopped by user' message is   *)
(* emitted instead, and a tenth round that throws ends the turn with an    *)
(* error event.                                                            *)
(***************************************************************************)
C7_AsStated ==
  (pc = "idle" /\ iteration = maxIterations /\ ~TerminateCalled) =>
    Cardinality(MaxIterationsEvents) = 1

(***************************************************************************)
(* C7, amended.  When the tenth round of a turn has completed (the loop    *)
(* condition is evaluated with the counter at the maximum), no round of    *)
(* the turn called terminate and no stop signal is pending, the next step  *)
(* emits the 'reached maximum iterations' message, which is the only one   *)
(* of the turn, and returns to Idle.                                       *)
(***************************************************************************)
C7_MaxIterationsReached ==
  [][ (pc = "loop" /\ iteration = maxIterations /\ ~TerminateCalled /\ ~shouldStop)
      => /\ pc' = "idle"
         /\ events' = Append(events, Message(MaxIterationsText))
         /\ MaxIterationsEvents = {} ]_vars

\* a turn ended at Idle by the maximum-iterations message, without terminate
C7_Witness ==
  /\ pc = "idle" /\ iteration = maxIterations /\ ~TerminateCalled
  /\ events # <<>> /\ Last(events) = Message(MaxIterationsText)

(***************************************************************************)
(* C8.  When the first round of a turn yielded exactly one file_operation  *)
(* call that succeeded and the second round yielded only text, so that the *)
(* tool_call/message events are running, completed with the listing, and   *)
(* the message of that text, the turn returns to Idle without another      *)
(* model call.                                                             *)
(* Violated: isToolCall stays true from the first round, so the text round *)
(* does not set shouldTerminate and a third round starts.                  *)
(***************************************************************************)
C8_Scenario ==
  /\ pc = "loop" /\ iteration = 2
  /\ toolCalls = <<>> /\ hasContent
  /\ \E uuid \in 1..used.uuids :
       LET args == [type |-> "list", path |-> "/"]
       IN ToolAndMessageEvents(events) =
            << ToolRunning(uuid, "file_operation", args),
               ToolCompleted(uuid, "file_operation", args,
                             SandboxResult("file_operation", args)),
               Message(currentMessage) >>

C8_TextRoundAfterToolRoundEnds ==
  [][ C8_Scenario => pc' = "idle" ]_vars

(***************************************************************************)
(* C9 as stated.  When a round's only tool call is terminate with a reason *)
(* and a summary, the completed event's output carries that reason and     *)
(* that summary.                                                           *)
(* Violated: an empty summary is replaced by 'Task completed'.             *)
(***************************************************************************)
SoleTerminate ==
  /\ Len(toolCalls) = 1 /\ toolCalls[1].name = "terminate"
  /\ ~JSONparseThrows(toolCalls[1].arguments)

C9_AsStated ==
  [][ (pc = "dispatch" /\ SoleTerminate
       /\ "summary" \in DOMAIN JSONparse(toolCalls[1].arguments))
      => LET args == JSONparse(toolCalls[1].arguments)
         IN \E i \in DOMAIN events' :
              /\ events'[i].type = "tool_call"
              /\ events'[i].data.status = "completed"
              /\ events'[i].data.output =
                   [terminated |-> "true", reason |-> args.reason,
                    summary |-> args.summary] ]_vars

(***************************************************************************)
(* C9, amended.  When a round's only tool call is terminate, the loop      *)
(* emits the running event and then a completed event whose output is      *)
(* {terminated: true, reason, summary}, the summary being the one given or *)
(* 'Task completed' when none or an empty one was given (followed by the   *)
(* round's message when it streamed content); it then appends the tool     *)
(* result to the history, and then leaves the loop for Idle without        *)
(* starting another round.                                                 *)
(***************************************************************************)
C9_Output ==
  LET args == JSONparse(toolCalls[1].arguments)
  IN [terminated |-> "true", reason |-> args.reason,
      summary |-> IF "summary" \in DOMAIN args /\ args.summary # ""
                  THEN args.summary ELSE "Task completed"]

C9_SoleTerminateEndsTurn ==
  [][ SoleTerminate =>
        /\ pc = "dispatch" =>
              LET args == JSONparse(toolCalls[1].arguments)
                  uuid == used.uuids + 1
                  emitted == << ToolRunning(uuid, "terminate", args),
                                ToolCompleted(uuid, "terminate", args, C9_Output) >>
              IN /\ events' = events \o emitted \o
                                (IF hasContent THEN <<Message(currentMessage)>> ELSE <<>>)
                 /\ toolResults' = <<ToolMessage(toolCalls[1].id, C9_Output)>>
                 /\ pc' = "flush"
        /\ pc = "flush" =>
              /\ conversationHistory' =
                   Append(conversationHistory, ToolMessage(toolCalls[1].id, C9_Output))
              /\ pc' = "loop"
        /\ pc = "loop" => pc' = "idle" /\ iteration' = iteration ]_vars

\* a turn ended at Idle after a round whose only call was terminate; the
\* result is in the history
C9_Witness ==
  /\ pc = "idle" /\ SoleTerminate
  /\ \E i \in DOMAIN conversationHistory :
       conversationHistory[i] = ToolMessage(toolCalls[1].id, C9_Output)
  /\ \E i \in DOMAIN events :
       /\ events[i].type = "tool_call" /\ events[i].data.status = "completed"
       /\ events[i].data.output = C9_Output

(***************************************************************************)
(* C10.  After a round that produced no tool calls and no textual content, *)
(* no further round is started: the turn returns to Idle, whether or not   *)
(* earlier rounds of the turn dispatched tool calls.                       *)
(* Violated: after a round that dispatched a tool call, isToolCall is true *)
(* and an empty round does not set shouldTerminate.                        *)
(***************************************************************************)
C10_EmptyRoundEndsTurn ==
  [][ (pc = "loop" /\ iteration >= 1 /\ toolCalls = <<>> /\ ~hasContent)
      => pc' = "idle" ]_vars

\* the positions of a turn inside runThoughtCycle, from the first round on
RoundPositions == { "loop", "stream", "dispatch", "op", "reconnect", "recreate", "flush" }

\* a stop signal arrived while a round of the current turn was in progress:
\* the flag is cleared on entry to runThoughtCycle and the first loop check
\* follows without an await
StopPending == shouldStop /\ pc \in RoundPositions

(***************************************************************************)
(* C11 as stated.  A turn in which a stop signal arrived while a round was *)
(* in progress ends by emitting the 'stopped by user' message.             *)
(* Violated: when the round's stream (or a dispatch) throws, the turn ends *)
(* with an error event and no 'stopped by user' message.                   *)
(***************************************************************************)
C11_AsStated ==
  [][ (StopPending /\ pc' = "idle") => Last(events') = Message(StoppedText) ]_vars

(***************************************************************************)
(* C11, amended.  The arrival of a stop signal while a round is in         *)
(* progress changes nothing but the flag (the stream and the dispatches go *)
(* on); from then on no further round is started; when the round has       *)
(* completed the turn emits the 'stopped by user' message and returns to   *)
(* Idle, and a round that throws ends the turn with the error event        *)
(* instead.                                                                *)
(***************************************************************************)
C11_StopIsCooperative ==
  [][ /\ (~shouldStop /\ shouldStop') =>
            UNCHANGED <<conversationHistory, pc, cycleVars, roundVars, callVars, events>>
      /\ StopPending =>
            /\ iteration' = iteration
            /\ pc = "loop" =>
                  pc' = "idle" /\ events' = Append(events, Message(StoppedText))
            /\ pc' = "idle" => Last(events') \in { Message(StoppedText), ErrorEvent } ]_vars

\* a turn ended by the 'stopped by user' message after a round whose tool
\* call was dispatched and answered
C11_Witness ==
  /\ pc = "idle" /\ shouldStop /\ ~shouldTerminate
  /\ iteration >= 1 /\ iteration < maxIterations
  /\ toolCalls # <<>>
  /\ \E i \in DOMAIN conversationHistory :
       conversationHistory[i].role = "tool"
       /\ conversationHistory[i].tool_call_id = toolCalls[1].id
  /\ events # <<>> /\ Last(events) = Message(StoppedText)

\* a tool result that carries a captured error (AgentService.ts 359-362)
IsErrorResult(result) == "error" \in DOMAIN result

(***************************************************************************)
(* C12.  The error of a tool call whose dispatch failed (unknown tool,     *)
(* unknown file-operation type, no active session, the sandbox operation   *)
(* threw) is captured as that call's tool result and appended to the       *)
(* history as a tool message: when the turn returns to Idle, no captured   *)
(* error result of the round is left out of the history.                   *)
(* Violated: a later call of the same batch whose arguments are not valid  *)
(* JSON throws out of executeToolCall; the round is aborted before line    *)
(* 173 and the captured result is never appended.                          *)
(***************************************************************************)
C12_FailureKeptInHistory ==
  [][ pc' = "idle" =>
        \A k \in DOMAIN toolResults' :
          IsErrorResult(toolResults'[k].content) =>
            \E i \in DOMAIN conversationHistory' :
              conversationHistory'[i] = toolResults'[k] ]_vars

\* the events a step appends to the turn's event stream
Emitted == SubSeq(events', Len(events) + 1, Len(events'))

(***************************************************************************)
(* C13.  For every tool call handed to executeToolCall, also one whose     *)
(* argument string is not valid JSON, a tool_call event with status        *)
(* running is emitted first, and when the call does not go on to await the *)
(* sandbox, a tool_call event with status completed or error follows it,   *)
(* with the same event id and the same input.                              *)
(* Violated: with malformed arguments JSON.parse throws before the running *)
(* event (line 302) and again in the catch block before the error event    *)
(* (line 370): no tool_call event is emitted at all.                       *)
(***************************************************************************)
C13_RunningThenOutcome ==
  [][ pc = "dispatch" =>
        /\ Len(Emitted) >= 1
        /\ Emitted[1].type = "tool_call"
        /\ Emitted[1].data.status = "running"
        /\ Emitted[1].data.id = used.uuids + 1
        /\ pc' # "op" =>
              /\ Len(Emitted) >= 2
              /\ Emitted[2].type = "tool_call"
              /\ Emitted[2].data.status \in { "completed", "error" }
              /\ Emitted[2].data.id = Emitted[1].data.id
              /\ Emitted[2].data.input = Emitted[1].data.input ]_vars

\* the tool_call events of an event stream with one of the given statuses
WithStatus(evs, statuses) ==
  LET Is(e) == e.type = "tool_call" /\ e.data.status \in statuses
  IN SelectSeq(evs, Is)

\* a dispatch of the current batch is in progress or about to start
InBatch == pc \in { "dispatch", "op", "reconnect", "recreate" }

\* a dispatch awaits the sandbox
InFlight == pc \in { "op", "reconnect", "recreate" }

(***************************************************************************)
(* C14.  Dispatches happen one at a time in stream-index order: while call *)
(* idx of the batch is being dispatched, the results collected are those   *)
(* of calls 1..idx-1 in that order, and at most one running event of the   *)
(* turn awaits its outcome event.  When a round completes, the number of   *)
(* calls dispatched (idx; in the first round also the number of running    *)
(* events of the turn) equals the number of tool result messages, which    *)
(* answer calls 1..idx in that order and are appended to the history in    *)
(* that order.                                                             *)
(***************************************************************************)
C14_DispatchedEqualsAppended ==
  [][ /\ InBatch =>
            /\ Len(toolResults) = idx - 1
            /\ \A k \in 1..(idx - 1) : toolResults[k].tool_call_id = toolCalls[k].id
            /\ Len(WithStatus(events, {"running"}))
                 - Len(WithStatus(events, {"completed", "error"}))
                 = IF InFlight THEN 1 ELSE 0
      /\ pc = "flush" =>
            /\ Len(toolResults) = idx
            /\ \A k \in 1..idx : toolResults[k].tool_call_id = toolCalls[k].id
            /\ iteration = 1 => Len(WithStatus(events, {"running"})) = Len(toolResults)
            /\ Len(WithStatus(events, {"running"}))
                 = Len(WithStatus(events, {"completed", "error"}))
            /\ conversationHistory' = conversationHistory \o toolResults
            /\ SubSeq(conversationHistory', Len(conversationHistory) + 1,
                        Len(conversationHistory'))
                 = [k \in 1..idx |-> ToolMessage(toolCalls[k].id, toolResults[k].content)]
      ]_vars

\* a round with a batch of two calls has completed: both were dispatched and
\* the history ends with their two results in batch order
C14_Witness ==
  /\ pc = "loop" /\ Len(toolCalls) = 2
  /\ Len(WithStatus(events, {"running"})) = 2
  /\ Len(conversationHistory) >= 2
  /\ LET n == Len(conversationHistory)
     IN /\ conversationHistory[n - 1].role = "tool"
        /\ conversationHistory[n - 1].tool_call_id = toolCalls[1].id
        /\ conversationHistory[n].role = "tool"
        /\ conversationHistory[n].tool_call_id = toolCalls[2].id

(***************************************************************************)
(* C15.  At most one processMessage is in progress on the AgentService at  *)
(* any time: no processMessage begins executing while an earlier one has   *)
(* not returned.                                                           *)
(* Violated: the message handler calls processMessage as each chat message *)
(* arrives; a chat that arrives while the first turn awaits the model      *)
(* stream starts a second turn on the same history.                        *)
(***************************************************************************)
C15_OneTurnAtATime == ~(pc # "idle" /\ other.pc # "none")

(***************************************************************************)
(* C16.  A reset request that arrives while a turn is running is deferred: *)
(* no step of resetConversation taken while the turn is not Idle clears    *)
(* the conversation history or closes or replaces the sandbox.             *)
(* Violated: the handler runs resetConversation at once; it empties the    *)
(* history before its first await and closes the sandbox the running turn  *)
(* is using.                                                               *)
(***************************************************************************)
C16_ResetDeferred ==
  [][ (pc # "idle" /\ rpc' # rpc) =>
        /\ conversationHistory' = conversationHistory
        /\ sandbox' = sandbox /\ sessionId' = sessionId ]_vars

(***************************************************************************)
(* C17.  The Sanitizer never runs in the middle of a round: between the    *)
(* append of a round's assistant message and the append of its tool        *)
(* results (the batch is being dispatched) no step is a run of             *)
(* sanitizeConversationHistory.                                            *)
(* Violated: a sanitize message that arrives while a dispatch awaits the   *)
(* sandbox is handled at once; it drops the assistant message, whose calls *)
(* are not answered yet, and the round then appends tool messages whose    *)
(* tool_call_id nothing references.                                        *)
(***************************************************************************)
C17_NoSanitizeMidRound ==
  [][ InBatch => ~Sanitize ]_vars

\* resumeSession is in progress (awaiting Sandbox.reconnect or the fallback
\* Sandbox.create)
InResume == pc \in { "reconnect", "recreate" }

(***************************************************************************)
(* C18.  resumeSession never surfaces a failure to its caller: for every   *)
(* outcome of the remote reconnect and create calls it returns, so that    *)
(* the step which ends it hands control back to the operation's catch      *)
(* block, which invokes the operation again.                               *)
(* Violated: when the reconnect and then the fallback createSession both   *)
(* fail, createSession rethrows (line 180) and `return this.createSession()`*)
(* rejects resumeSession; the error leaves the operation without a retry.  *)
(***************************************************************************)
C18_ResumeNeverThrows ==
  [][ (InResume /\ ~InResume') => (pc' = "op" /\ attempts' = attempts + 1) ]_vars

(***************************************************************************)
(* C19.  When a sandbox operation failed with the timeout signal and the   *)
(* reconnect succeeds, the operation is invoked again with resumeSession   *)
(* having been called exactly once for this call and the operation         *)
(* attempted exactly twice, no sandbox having been created and the held    *)
(* session id unchanged.                                                   *)
(* Violated: when the retried attempt times out as well, its catch block   *)
(* resumes again; after that reconnect the call has had two resumeSession  *)
(* calls and starts its third attempt, and the dispatcher receives the     *)
(* third attempt's result.                                                 *)
(***************************************************************************)
C19_ResumeOnceRetryOnce ==
  [][ (pc = "reconnect" /\ pc' = "op") =>
        /\ resumes' = 1 /\ attempts' = 2
        /\ sessionId' = sessionId
        /\ used'.sandboxes = used.sandboxes ]_vars

(***************************************************************************)
(* C20.  closeSession never throws and is idempotent.  With an active      *)
(* session it awaits the remote close and, whether that returns or fails,  *)
(* clears the sandbox reference and the session id and returns (the reset  *)
(* goes on to createSession).  With no active session, as after an earlier *)
(* closeSession, it makes no remote call and changes nothing.              *)
(***************************************************************************)
C20_CloseSession ==
  [][ /\ (rpc = "closing" /\ rpc' # rpc) =>
            /\ sandbox' = NoId /\ sessionId' = NoId
            /\ rpc' = "creating"
      /\ (rpc = "none" /\ rpc' # rpc) =>
            IF sandbox # NoId
            THEN rpc' = "closing" /\ UNCHANGED e2bVars
            ELSE rpc' = "creating" /\ UNCHANGED e2bVars ]_vars

\* a reset has closed a sandbox that had been created and its closeSession
\* has returned with both fields cleared
C20_Witness ==
  /\ rpc = "creating" /\ used.sandboxes >= 1
  /\ sandbox = NoId /\ sessionId = NoId

\* the remote sandboxes created so far that were neither closed nor reported
\* a timeout
LiveSandboxes == (1..used.sandboxes) \ used.gone

(***************************************************************************)
(* C21.  At most one active session exists: the number of remote sandboxes *)
(* the Session Manager has created and that are neither closed nor expired *)
(* never exceeds one.                                                      *)
(* Violated: a reset that arrives while processMessage awaits              *)
(* Sandbox.create finds no sandbox and creates one of its own; both        *)
(* creations succeed, the later assignment overwrites the earlier handle   *)
(* and the first sandbox is never closed.                                  *)
(***************************************************************************)
C21_AtMostOneSandbox == Cardinality(LiveSandboxes) <= 1

\* the positions of the events of the current turn that are error events
ErrorEvents == { i \in DOMAIN events : events[i].type = "error" }

(***************************************************************************)
(* C22.  A failure of the turn that is no tool-level error (createSession  *)
(* fails while the session is acquired, or the streaming request fails     *)
(* before or during the stream) aborts the turn: the step that ends the    *)
(* await returns the turn to Idle with exactly one error event, which is   *)
(* the last event of the turn.  An error event is never followed by        *)
(* another event and the turn is at Idle whenever one was emitted.         *)
(***************************************************************************)
C22_TurnFailureReported ==
  [][ /\ \A i \in ErrorEvents : i = Len(events) /\ pc = "idle"
      /\ (pc \in { "acquire", "stream" } /\ pc' = "idle") =>
            /\ Cardinality(ErrorEvents') = 1
            /\ Last(events') = ErrorEvent ]_vars

\* a turn aborted by a failure of the stream after content had been streamed
C22_Witness ==
  /\ pc = "idle" /\ iteration >= 1
  /\ Len(events) >= 2
  /\ events[1].type = "thinking"
  /\ Last(events) = ErrorEvent


\* ------------------------------------------------------------------------
\* performFileOperation's path rewriting, studied on its own.  A path is the
\* sequence of its characters; the working root '/home/user/' is kept as the
\* five pieces it is made of.

MaxPathLen == 4
PathChars == { ".", "/", "a" }
Paths == UNION { [1..n -> PathChars] : n \in 0..MaxPathLen }
HomeUser == << "/", "home", "/", "user", "/" >>

\* String.prototype.startsWith
startsWith(s, prefix) ==
  /\ Len(s) >= Len(prefix)
  /\ SubSeq(s, 1, Len(prefix)) = prefix

\* String.prototype.indexOf (1-based; 0 when the pattern does not occur)
indexOf(s, pattern) ==
  LET at == { i \in 1..(Len(s) - Len(pattern) + 1) :
                SubSeq(s, i, i + Len(pattern) - 1) = pattern }
  IN  IF at = {} THEN 0 ELSE CHOOSE i \in at : \A j \in at : i <= j

\* String.prototype.replace with a string pattern: the first occurrence only
replace(s, pattern, replacement) ==
  LET i == indexOf(s, pattern)
  IN  IF i = 0 THEN s
      ELSE SubSeq(s, 1, i - 1) \o replacement \o SubSeq(s, i + Len(pattern), Len(s))

normalizePathKeepingParent(p) ==
  IF startsWith(p, << ".", "/" >>) THEN replace(p, << ".", "/" >>, HomeUser)
  ELSE IF ~startsWith(p, << "/" >>) THEN HomeUser \o p
  ELSE p

normalizePath(p) ==
  IF startsWith(p, << ".", "/" >>) THEN replace(p, << ".", "/" >>, HomeUser)
  ELSE IF startsWith(p, << ".", ".", "/" >>) THEN replace(p, << ".", ".", "/" >>, HomeUser)
  ELSE IF ~startsWith(p, << "/" >>) THEN HomeUser \o p
  ELSE p

\* the state after construction, with the path of a file operation still to
\* be rewritten
InitPath ==
  /\ conversationHistory = <<>>
  /\ seenToolCallIds = {}
  /\ shouldStop = FALSE
  /\ sandbox = NoId
  /\ sessionId = NoId
  /\ pc = "idle"
  /\ iteration = 0
  /\ shouldTerminate = FALSE
  /\ isToolCall = FALSE
  /\ currentMessage = <<>>
  /\ hasContent = FALSE
  /\ toolCalls = <<>>
  /\ toolResults = <<>>
  /\ idx = 0
  /\ toolCallId = NoId
  /\ reconnectId = NoId
  /\ attempts = 0
  /\ resumes = 0
  /\ events = <<>>
  /\ rpc = "none"
  /\ used = [inputs |-> 0, calls |-> 0, uuids |-> 0, sandboxes |-> 0, gone |-> {},
             nulls |-> 0, stops |-> 0]
  /\ other = [pc |-> "none", events |-> <<>>]
  /\ path \in Paths
  /\ absolutePath = <<>>
  /\ wsRef = "null"
  /\ isConnected = FALSE
  /\ wire = <<>>
  /\ stream = <<>>
  /\ now = 0
  /\ filenames = <<>>
  /\ chatEvents = <<>>
  /\ isThinking = FALSE
  /\ received = [turns |-> 0, responses |-> <<>>]

\* const absolutePath = normalizePath(operation.path)
NormalizePath ==
  /\ absolutePath = <<>>
  /\ absolutePath' = normalizePath(path)
  /\ UNCHANGED <<agentVars, e2bVars, pc, cycleVars, roundVars, callVars, events, rpc,
                 other, used, path, clientVars, streamVars, codeVars, uiVars>>

NextPath == NormalizePath

SpecPath == InitPath /\ [][NextPath]_vars

\* C23: the path handed to the filesystem is the given one when it starts with
\* '/', the given one with its leading './' or '../' replaced by '/home/user/'
\* when it starts with one of them, and '/home/user/' followed by the given
\* one otherwise.
C23_PathPolicy ==
  absolutePath # <<>> =>
    absolutePath =
      IF path # <<>> /\ Head(path) = "/" THEN path
      ELSE IF Len(path) >= 2 /\ SubSeq(path, 1, 2) = << ".", "/" >>
        THEN HomeUser \o SubSeq(path, 3, Len(path))
      ELSE IF Len(path) >= 3 /\ SubSeq(path, 1, 3) = << ".", ".", "/" >>
        THEN HomeUser \o SubSeq(path, 4, Len(path))
      ELSE HomeUser \o path

\* '../a' has become '/home/user/a'
C23_Witness ==
  /\ path = << ".", ".", "/", "a" >>
  /\ absolutePath = HomeUser \o << "a" >>


\* ------------------------------------------------------------------------
\* The page's connection and its 'Stop' and 'Reconnect' controls
\* (ChatInterface.tsx), with the server's message handler (index.ts 26-53)
\* for the two messages they send.  The agent is between turns.

MaxWire == 3

\* histories the agent can hold between turns: the last two are left by a
\* round that was aborted before or while its second call was answered
ClientHistories ==
  LET call1 == [id |-> 1, name |-> "browser", arguments |-> "{command:ls}"]
      call2 == [id |-> 2, name |-> "browser", arguments |-> "{command:ls}"]
      answer(id) == ToolMessage(id, ErrorResult("Unknown tool: browser"))
  IN { <<>>,
       << UserMessage >>,
       << UserMessage, AssistantMessage(<<>>, << call1 >>), answer(1) >>,
       << UserMessage, AssistantMessage(<<>>, << call1 >>) >>,
       << UserMessage, AssistantMessage(<<>>, << call1, call2 >>), answer(1) >> }

StopMessage == [type |-> "stop"]
SanitizeMessage == [type |-> "sanitize"]

\* WebSocket.send: throws while the socket is connecting, ...
sendThrows(readyState) == readyState = "CONNECTING"
\* ... queues the data on an open socket and discards it on a closed one
send(readyState, w, data) ==
  IF readyState = "OPEN" THEN Append(w, data) ELSE w

InitClient ==
  /\ conversationHistory \in ClientHistories
  /\ seenToolCallIds = {}
  /\ shouldStop = FALSE
  /\ sandbox = NoId
  /\ sessionId = NoId
  /\ pc = "idle"
  /\ iteration = 0
  /\ shouldTerminate = FALSE
  /\ isToolCall = FALSE
  /\ currentMessage = <<>>
  /\ hasContent = FALSE
  /\ toolCalls = <<>>
  /\ toolResults = <<>>
  /\ idx = 0
  /\ toolCallId = NoId
  /\ reconnectId = NoId
  /\ attempts = 0
  /\ resumes = 0
  /\ events = <<>>
  /\ rpc = "none"
  /\ used = [inputs |-> 0, calls |-> 0, uuids |-> 0, sandboxes |-> 0, gone |-> {},
             nulls |-> 0, stops |-> 0]
  /\ other = [pc |-> "none", events |-> <<>>]
  /\ path = <<>>
  /\ absolutePath = <<>>
  /\ wsRef = "null"
  /\ isConnected = FALSE
  /\ wire = <<>>
  /\ stream = <<>>
  /\ now = 0
  /\ filenames = <<>>
  /\ chatEvents = <<>>
  /\ isThinking = FALSE
  /\ received = [turns |-> 0, responses |-> <<>>]

serverVars == <<agentVars, e2bVars, pc, cycleVars, roundVars, callVars, events, rpc,
                other, used, pathVars, streamVars, codeVars, uiVars>>

\* connectWebSocket (ChatInterface.tsx 85-101) called by the mount effect
Mount ==
  /\ wsRef = "null"
  /\ wsRef' = "CONNECTING"
  /\ UNCHANGED <<serverVars, isConnected, wire>>

\* ws.onopen
OnOpen ==
  /\ wsRef = "CONNECTING"
  /\ wsRef' = "OPEN"
  /\ isConnected' = TRUE
  /\ UNCHANGED <<serverVars, wire>>

\* ws.onclose: the connection attempt failed or the connection dropped;
\* what was in flight may be lost with it
OnClose ==
  /\ wsRef \in { "CONNECTING", "OPEN" }
  /\ wsRef' = "CLOSED"
  /\ isConnected' = FALSE
  /\ wire' \in { wire, <<>> }
  /\ UNCHANGED serverVars

\* handleStop
HandleStop ==
  /\ wsRef # "null" /\ isConnected
  /\ Len(wire) < MaxWire
  /\ wire' = send(wsRef, wire, StopMessage)
  /\ UNCHANGED <<serverVars, wsRef, isConnected>>

\* handleReconnectAndSanitize: send on the socket held, then connectWebSocket
HandleReconnectAndSanitize ==
  /\ wsRef # "null" /\ ~isConnected
  /\ Len(wire) < MaxWire
  /\ IF sendThrows(wsRef)
     THEN UNCHANGED <<wsRef, wire>>
     ELSE /\ wire' = send(wsRef, wire, SanitizeMessage)
          /\ wsRef' = "CONNECTING"
  /\ UNCHANGED <<serverVars, isConnected>>

\* the server's message handler for 'sanitize' and 'stop'
OnMessage ==
  /\ wire # <<>>
  /\ wire' = Tail(wire)
  /\ IF Head(wire).type = "sanitize"
     THEN /\ conversationHistory' = Sanitized(conversationHistory)
          /\ UNCHANGED shouldStop
     ELSE /\ shouldStop' = TRUE
          /\ UNCHANGED conversationHistory
  /\ UNCHANGED <<seenToolCallIds, e2bVars, pc, cycleVars, roundVars, callVars, events,
                 rpc, other, used, pathVars, streamVars, codeVars, uiVars, wsRef,
                 isConnected>>

NextClient ==
  \/ Mount
  \/ OnOpen
  \/ OnClose
  \/ HandleStop
  \/ HandleReconnectAndSanitize
  \/ OnMessage

SpecClient == InitClient /\ [][NextClient]_vars

\* C24: when 'Reconnect' is used after the connection has dropped, a
\* sanitize message is on its way to the server's message handler.
C24_ReconnectSendsSanitize ==
  [][ (wsRef = "CLOSED" /\ wsRef' = "CONNECTING") =>
        /\ wire' # <<>>
        /\ wire'[Len(wire')] = SanitizeMessage ]_vars


(***************************************************************************)
(* C25.  A sandbox operation dispatched while no sandbox is held fails      *)
(* with 'No active session' at once: no remote call is awaited, no          *)
(* resumeSession call and no further attempt is made, no sandbox is         *)
(* created, and the error is collected as the tool call's error result and  *)
(* emitted as the call's error event.                                       *)
(***************************************************************************)
NoActiveSessionResult == [error |-> "No active session", isTimeout |-> "false"]

C25_NoSessionFailsAtOnce ==
  [][ ( /\ pc = "dispatch"
        /\ sandbox = NoId
        /\ toolCalls[idx].name \in SandboxTools
        /\ ~JSONparseThrows(toolCalls[idx].arguments) ) =>
        /\ pc' \in { "dispatch", "flush" }
        /\ toolResults' =
             Append(toolResults, ToolMessage(toolCalls[idx].id, NoActiveSessionResult))
        /\ attempts' = 0 /\ resumes' = 0
        /\ sandbox' = NoId /\ sessionId' = sessionId
        /\ used'.sandboxes = used.sandboxes
        /\ Len(events') = Len(events) + 2
        /\ events'[Len(events')].type = "tool_call"
        /\ events'[Len(events')].data.status = "error" ]_vars

\* one message, one reset and one tool call (no operation timed out): the
\* call found no sandbox and has its error result
C25_Witness ==
  /\ used.inputs = 3
  /\ toolResults # <<>>
  /\ Last(toolResults).content = NoActiveSessionResult
  /\ events # <<>>
  /\ Last(events).type = "tool_call"
  /\ Last(events).data.status = "error"


(***************************************************************************)
(* C26.  A turn that ended by termination (the terminate tool was called,   *)
(* or a round without tool calls ended it) has emitted no 'reached maximum  *)
(* iterations' message, also when the terminating round was the tenth.      *)
(* Violated: the exit test at lines 189-199 looks at the stop flag and the  *)
(* counter only; when the tenth round calls terminate the loop ends with    *)
(* shouldTerminate set and iteration = 10, and the message is emitted.      *)
(***************************************************************************)
C26_NoMaxMessageAfterTermination ==
  (pc = "idle" /\ shouldTerminate) => MaxIterationsEvents = {}


(***************************************************************************)
(* C27.  When the dispatch of the k-th tool call of a round begins, the     *)
(* history already holds the tool messages of the calls 1..k-1 of that      *)
(* round.                                                                   *)
(* Violated: the results are collected in toolResults and appended to the   *)
(* history only once, after the for-of loop (line 173); while the second    *)
(* call is dispatched the first call's result is not in the history, and a  *)
(* second call that throws out of executeToolCall loses it.                 *)
(***************************************************************************)
C27_ResultsAppendedAtOnce ==
  (pc = "dispatch" /\ idx > 1) =>
    \A k \in 1..(idx - 1) :
      \E i \in DOMAIN conversationHistory :
        /\ conversationHistory[i].role = "tool"
        /\ conversationHistory[i].tool_call_id = toolCalls[k].id


\* ------------------------------------------------------------------------
\* The accumulation of streamed tool-call fragments (AgentService.ts
\* 105-119), studied on its own: the first round of a turn is consuming its
\* stream.  An argument string is the sequence of its characters; toolCalls
\* is the array under construction, defined at the indexes assigned so far.

MaxFragments == 3
StreamIndexes == { 0, 1 }

\* delta.tool_calls entries: id and function.name may be absent (NoId,
\* "undefined"), function.arguments may be absent or empty (<<>>)
Fragments ==
  { [index |-> i, id |-> h.id, name |-> h.name, arguments |-> a] :
      i \in StreamIndexes,
      h \in { [id |-> NoId, name |-> "undefined"],
              [id |-> 1, name |-> "terminate"],
              [id |-> 2, name |-> "browser"] },
      a \in { <<>>, << "{" >>, << "}" >> } }

\* toolCall.function?.name || ''
NameOrEmpty(name) == IF name = "undefined" THEN "" ELSE name

\* Accumulate putting a fragment's arguments in front of those collected
AccumulatePrepending(calls, toolCall) ==
  LET created ==
        IF toolCall.index \in DOMAIN calls THEN calls
        ELSE [i \in DOMAIN calls \cup { toolCall.index } |->
                IF i = toolCall.index
                THEN [id |-> toolCall.id, name |-> NameOrEmpty(toolCall.name),
                      arguments |-> <<>>]
                ELSE calls[i]]
  IN IF toolCall.arguments # <<>>
     THEN [created EXCEPT ![toolCall.index].arguments = toolCall.arguments \o @]
     ELSE created

\* the body of `for (const toolCall of delta.tool_calls)`
Accumulate(calls, toolCall) ==
  LET created ==
        IF toolCall.index \in DOMAIN calls THEN calls
        ELSE [i \in DOMAIN calls \cup { toolCall.index } |->
                IF i = toolCall.index
                THEN [id |-> toolCall.id, name |-> NameOrEmpty(toolCall.name),
                      arguments |-> <<>>]
                ELSE calls[i]]
  IN IF toolCall.arguments # <<>>
     THEN [created EXCEPT ![toolCall.index].arguments = @ \o toolCall.arguments]
     ELSE created

\* the first round of a turn awaits its stream; no fragment has arrived
InitStream ==
  /\ conversationHistory = << UserMessage >>
  /\ seenToolCallIds = {}
  /\ shouldStop = FALSE
  /\ sandbox = 1
  /\ sessionId = 1
  /\ pc = "stream"
  /\ iteration = 1
  /\ shouldTerminate = FALSE
  /\ isToolCall = FALSE
  /\ currentMessage = <<>>
  /\ hasContent = FALSE
  /\ toolCalls = <<>>
  /\ toolResults = <<>>
  /\ idx = 0
  /\ toolCallId = NoId
  /\ reconnectId = NoId
  /\ attempts = 0
  /\ resumes = 0
  /\ events = <<>>
  /\ rpc = "none"
  /\ used = [inputs |-> 1, calls |-> 0, uuids |-> 0, sandboxes |-> 1, gone |-> {},
             nulls |-> 0, stops |-> 0]
  /\ other = [pc |-> "none", events |-> <<>>]
  /\ path = <<>>
  /\ absolutePath = <<>>
  /\ wsRef = "null"
  /\ isConnected = FALSE
  /\ wire = <<>>
  /\ stream = <<>>
  /\ now = 0
  /\ filenames = <<>>
  /\ chatEvents = <<>>
  /\ isThinking = FALSE
  /\ received = [turns |-> 0, responses |-> <<>>]

\* the stream yields a chunk with one more tool-call fragment
NextFragment ==
  /\ pc = "stream"
  /\ Len(stream) < MaxFragments
  /\ \E toolCall \in Fragments :
       /\ stream' = Append(stream, toolCall)
       /\ toolCalls' = Accumulate(toolCalls, toolCall)
  /\ UNCHANGED <<agentVars, e2bVars, pc, cycleVars, currentMessage, hasContent,
                 toolResults, idx, callVars, events, rpc, other, used, pathVars,
                 clientVars, codeVars, uiVars>>

NextStream == NextFragment

SpecStream == InitStream /\ [][NextStream]_vars

\* the fragments of the stream that bear index i, in arrival order
Bearing(i) == SelectSeq(stream, LAMBDA toolCall : toolCall.index = i)

RECURSIVE Concatenated(_)
Concatenated(fragments) ==
  IF fragments = <<>> THEN <<>>
  ELSE Head(fragments).arguments \o Concatenated(Tail(fragments))

(***************************************************************************)
(* C28.  For every stream index, the call reconstructed at that index       *)
(* exists exactly when a fragment bearing the index has arrived; its        *)
(* argument string is the concatenation, in arrival order, of the argument  *)
(* fragments bearing that index, and its id and name are those of the first *)
(* fragment bearing that index (the empty name when that one has none).     *)
(***************************************************************************)
C28_FragmentsAccumulated ==
  \A i \in StreamIndexes :
    IF Bearing(i) = <<>>
    THEN i \notin DOMAIN toolCalls
    ELSE /\ i \in DOMAIN toolCalls
         /\ toolCalls[i].arguments = Concatenated(Bearing(i))
         /\ toolCalls[i].id = Bearing(i)[1].id
         /\ toolCalls[i].name = NameOrEmpty(Bearing(i)[1].name)

\* two argument fragments of index 0 arrived around one of index 1
C28_Witness ==
  /\ Len(stream) = 3
  /\ stream[1].index = 0 /\ stream[2].index = 1 /\ stream[3].index = 0
  /\ 0 \in DOMAIN toolCalls
  /\ toolCalls[0].arguments = << "{", "}" >>
  /\ toolCalls[0].id = 1


(***************************************************************************)
(* C29.  The number of rounds of a turn, which is the number of streamed    *)
(* model calls the turn has started, never exceeds the maximum iteration    *)
(* count: the counter is at most the maximum, and a model call is started   *)
(* only by a step that counts it.                                           *)
(***************************************************************************)
C29_RoundsBounded ==
  /\ iteration \in 0..maxIterations
  /\ pc = "stream" => iteration >= 1

\* the tenth model call of a turn is in flight; the turn dispatched a tool
\* call and never called terminate
C29_Witness ==
  /\ pc = "stream"
  /\ iteration = maxIterations
  /\ ~TerminateCalled
  /\ \E i \in DOMAIN events : events[i].type = "tool_call"


(***************************************************************************)
(* C30.  When an operation times out while no session id is held,           *)
(* resumeSession returns absent without side effects: no reconnect and no   *)
(* create call is awaited, no sandbox is created, and the sandbox reference *)
(* and the session id are left as they were.                                *)
(***************************************************************************)
C30_ResumeWithoutSessionId ==
  [][ (OpTimesOut /\ sessionId = NoId) =>
        /\ ~InResume'
        /\ reconnectId' = NoId
        /\ sandbox' = sandbox /\ sessionId' = sessionId
        /\ used'.sandboxes = used.sandboxes
        /\ used'.nulls = used.nulls + 1 ]_vars

\* resumeSession has returned absent once; the operation's second invocation
\* found no sandbox
C30_Witness ==
  /\ used.nulls = 1
  /\ sandbox = NoId /\ sessionId = NoId
  /\ toolResults # <<>>
  /\ Last(toolResults).content = NoActiveSessionResult


(***************************************************************************)
(* C31.  getOrCreateSession, called at the start of a turn: with a sandbox  *)
(* held the turn goes on with no remote call and the sandbox reference and  *)
(* session id unchanged; with none it awaits one Sandbox.create, whose      *)
(* success installs exactly one new sandbox and whose failure ends the turn *)
(* with the error event, no sandbox created and no second attempt.          *)
(***************************************************************************)
C31_GetOrCreateSession ==
  [][ /\ (pc = "idle" /\ pc' # "idle") =>
            /\ sandbox' = sandbox /\ sessionId' = sessionId
            /\ used'.sandboxes = used.sandboxes
            /\ (sandbox # NoId) = (pc' # "acquire")
      /\ (pc = "acquire" /\ pc' # "acquire") =>
            \/ /\ pc' = "loop"
               /\ used'.sandboxes = used.sandboxes + 1
               /\ sandbox' = used'.sandboxes /\ sessionId' = used'.sandboxes
            \/ /\ pc' = "idle"
               /\ used'.sandboxes = used.sandboxes
               /\ sandbox' = sandbox /\ sessionId' = sessionId
               /\ Last(events') = ErrorEvent ]_vars

\* the second turn has begun with the sandbox the first turn created
C31_Witness ==
  /\ pc = "loop" /\ iteration = 0
  /\ sandbox = 1 /\ sessionId = 1 /\ used.sandboxes = 1
  /\ Len(SelectSeq(conversationHistory, LAMBDA m : m.role = "user")) = 2


\* ------------------------------------------------------------------------
\* The temporary files of executeCode (E2BService.ts 297-316), studied on
\* their own: each attempt of executeCode reads the clock once and writes the
\* code to the file named after it.  Attempts of one turn follow each other;
\* attempts of overlapping turns (index.ts 30-33) may begin at any time.

MaxClock == 3
MaxExecutions == 3
Languages == { "python", "javascript", "bash" }

Extension(language) ==
  CASE language = "python" -> ".py"
    [] language = "javascript" -> ".js"
    [] language = "bash" -> ".sh"

\* `/tmp/script_${Date.now()}` followed by the extension
TempFile(clock, language) == << "/tmp/script_", clock, Extension(language) >>

InitCode ==
  /\ conversationHistory = <<>>
  /\ seenToolCallIds = {}
  /\ shouldStop = FALSE
  /\ sandbox = NoId
  /\ sessionId = NoId
  /\ pc = "idle"
  /\ iteration = 0
  /\ shouldTerminate = FALSE
  /\ isToolCall = FALSE
  /\ currentMessage = <<>>
  /\ hasContent = FALSE
  /\ toolCalls = <<>>
  /\ toolResults = <<>>
  /\ idx = 0
  /\ toolCallId = NoId
  /\ reconnectId = NoId
  /\ attempts = 0
  /\ resumes = 0
  /\ events = <<>>
  /\ rpc = "none"
  /\ used = [inputs |-> 0, calls |-> 0, uuids |-> 0, sandboxes |-> 0, gone |-> {},
             nulls |-> 0, stops |-> 0]
  /\ other = [pc |-> "none", events |-> <<>>]
  /\ path = <<>>
  /\ absolutePath = <<>>
  /\ wsRef = "null"
  /\ isConnected = FALSE
  /\ wire = <<>>
  /\ stream = <<>>
  /\ now = 0
  /\ filenames = <<>>
  /\ chatEvents = <<>>
  /\ isThinking = FALSE
  /\ received = [turns |-> 0, responses |-> <<>>]

notCodeVars == <<agentVars, e2bVars, pc, cycleVars, roundVars, callVars, events, rpc,
                 other, used, pathVars, clientVars, streamVars, uiVars>>

\* a millisecond passes
Tick ==
  /\ now < MaxClock
  /\ now' = now + 1
  /\ UNCHANGED <<notCodeVars, filenames>>

\* an attempt of executeCode begins: it chooses its file
ExecuteCode ==
  /\ Len(filenames) < MaxExecutions
  /\ \E language \in Languages :
       filenames' = Append(filenames, [language |-> language,
                                       filename |-> TempFile(now, language)])
  /\ UNCHANGED <<notCodeVars, now>>

NextCode == Tick \/ ExecuteCode

SpecCode == InitCode /\ [][NextCode]_vars

(***************************************************************************)
(* C32.  Any two attempts of executeCode for the same language write their  *)
(* code to distinct files.                                                  *)
(* Violated: the file name is made of Date.now() and the extension only;    *)
(* two attempts for the same language that begin within the same            *)
(* millisecond choose the same file.                                        *)
(***************************************************************************)
C32_TempFilesDistinct ==
  \A i, j \in DOMAIN filenames :
    (i # j /\ filenames[i].language = filenames[j].language) =>
      filenames[i].filename # filenames[j].filename


\* sequence a is a prefix of sequence b
IsPrefix(a, b) == Len(a) <= Len(b) /\ SubSeq(b, 1, Len(a)) = a

(***************************************************************************)
(* C33, as stated.  Every step that is not a run of the sanitizer leaves    *)
(* the former history as a prefix of the new one.                           *)
(* Violated: resetConversation assigns the empty array (line 49).           *)
(***************************************************************************)
C33_AsStated ==
  [][ ~Sanitize => IsPrefix(conversationHistory, conversationHistory') ]_vars

(***************************************************************************)
(* C33, amended.  Every step that is neither a run of the sanitizer nor the *)
(* start of resetConversation leaves the former history as a prefix of the  *)
(* new one; the start of resetConversation leaves the history empty.        *)
(***************************************************************************)
C33_AppendOnlyButSanitizeAndReset ==
  [][ /\ (~Sanitize /\ ~ResetBegin) =>
            IsPrefix(conversationHistory, conversationHistory')
      /\ ResetBegin => conversationHistory' = <<>> ]_vars

\* a turn that ran to its final message was followed by a reset, which is
\* still in progress: the history the turn left is gone
C33_Witness ==
  /\ pc = "idle" /\ rpc # "none"
  /\ events # <<>> /\ Last(events).type = "message"
  /\ conversationHistory = <<>>


\* the assistant messages of a history
AssistantMessages(h) == SelectSeq(h, LAMBDA m : m.role = "assistant")

(***************************************************************************)
(* C34.  The step that ends a round's stream appends one assistant message  *)
(* when the round produced content or tool calls (content null when there   *)
(* is no text, tool_calls listing every accumulated call in order) and      *)
(* leaves the history alone when it produced neither; no other step of the  *)
(* turn adds an assistant message.  While the batch is dispatched the turn  *)
(* does not touch the history (only a sanitize or a reset arriving in       *)
(* between does), and the round's tool messages are then appended together, *)
(* so that they follow the assistant message contiguously.                  *)
(***************************************************************************)
C34_OneAssistantMessagePerRound ==
  [][ /\ (pc = "stream" /\ pc' \in { "dispatch", "loop" }) =>
            IF hasContent' \/ toolCalls' # <<>>
            THEN /\ Len(conversationHistory') = Len(conversationHistory) + 1
                 /\ IsPrefix(conversationHistory, conversationHistory')
                 /\ LET m == Last(conversationHistory')
                    IN /\ m.role = "assistant"
                       /\ m.content = IF currentMessage' = <<>>
                                      THEN [null |-> TRUE, text |-> <<>>]
                                      ELSE [null |-> FALSE, text |-> currentMessage']
                       /\ Len(m.tool_calls) = Len(toolCalls')
                       /\ \A j \in DOMAIN toolCalls' :
                            /\ m.tool_calls[j].id = toolCalls'[j].id
                            /\ m.tool_calls[j].name = toolCalls'[j].name
                            /\ m.tool_calls[j].arguments = toolCalls'[j].arguments
            ELSE conversationHistory' = conversationHistory
      /\ ~(pc = "stream" /\ pc' \in { "dispatch", "loop" }) =>
            Len(AssistantMessages(conversationHistory'))
              <= Len(AssistantMessages(conversationHistory))
      /\ (InBatch /\ ~Sanitize /\ ~ResetBegin) =>
            conversationHistory' = conversationHistory
      /\ pc = "flush" =>
            /\ conversationHistory' = conversationHistory \o toolResults
            /\ \A k \in DOMAIN toolResults : toolResults[k].role = "tool" ]_vars

\* a round of two tool calls and no text has completed: the history ends with
\* its assistant message, content null, followed by the two tool messages
C34_Witness ==
  /\ pc = "loop" /\ Len(toolCalls) = 2 /\ ~hasContent
  /\ Len(conversationHistory) >= 3
  /\ LET n == Len(conversationHistory)
     IN /\ conversationHistory[n - 2].role = "assistant"
        /\ conversationHistory[n - 2].content = NullContent
        /\ Len(conversationHistory[n - 2].tool_calls) = 2
        /\ conversationHistory[n - 1].role = "tool"
        /\ conversationHistory[n].role = "tool"


(***************************************************************************)
(* C35.  No round is started once a stop signal has arrived during the      *)
(* turn, that is, after processMessage was invoked.                         *)
(* Violated: runThoughtCycle begins with `this.shouldStop = false` (line    *)
(* 65); a stop signal that arrives while processMessage still awaits        *)
(* getOrCreateSession is erased and the first round starts.                 *)
(***************************************************************************)
C35_StopNeverLost ==
  [][ (pc # "stream" /\ pc' = "stream") => used.stops = 0 ]_vars


(***************************************************************************)
(* C36.  A turn that fails to acquire its sandbox session does not touch    *)
(* the history, neither when it begins to wait for the session nor when     *)
(* the creation fails; it makes no model call, and its events are exactly   *)
(* one error event.                                                         *)
(***************************************************************************)
C36_AcquireFailureLeavesHistory ==
  [][ /\ (pc = "idle" /\ pc' = "acquire") =>
            conversationHistory' = conversationHistory /\ events' = <<>>
      /\ (pc = "acquire" /\ pc' = "idle") =>
            /\ conversationHistory' = conversationHistory
            /\ events' = << ErrorEvent >>
            /\ iteration' = 0 ]_vars

\* the first message of a conversation found no sandbox and the creation
\* failed
C36_Witness ==
  /\ pc = "idle" /\ used.inputs = 1
  /\ sandbox = NoId /\ used.sandboxes = 0
  /\ events = << ErrorEvent >>
  /\ conversationHistory = <<>>
  /\ iteration = 0


\* no method of the session manager is in progress: no turn awaits
\* getOrCreateSession or a sandbox operation (with its resumeSession), and no
\* reset awaits closeSession or createSession
SessionManagerAtRest ==
  /\ pc \notin { "acquire", "op", "reconnect", "recreate" }
  /\ rpc = "none"
  /\ other.pc # "acquire"

(***************************************************************************)
(* C37.  Whenever no method of the session manager is in progress, the      *)
(* sandbox reference is null exactly when the session id is null.           *)
(* Violated: resumeSession assigns only the sandbox reference, after its    *)
(* await (line 187).  When a reset closes the session while the reconnect   *)
(* is awaited, closeSession clears both fields, the reconnect then installs *)
(* a sandbox reference while the session id stays null, and a failure of    *)
(* the reset's createSession leaves them so.                                *)
(***************************************************************************)
C37_SandboxIffSessionId ==
  SessionManagerAtRest => ((sandbox = NoId) = (sessionId = NoId))


\* a reset is in progress, no turn is running, the history is as the reset
\* left it, and the session fields are as a reset begun with no turn running
\* has them: while closeSession awaits the close the sandbox is still held,
\* and while createSession awaits the creation none is
ResetAlone ==
  /\ rpc # "none" /\ pc = "idle" /\ other.pc = "none"
  /\ conversationHistory = <<>> /\ seenToolCallIds = {}
  /\ rpc = "closing" => (sandbox # NoId /\ sandbox \in used.gone)
  /\ rpc = "creating" => sandbox = NoId

MaxTurns == 2
MaxResponses == 3

TerminateArgs == [reason |-> "done", summary |-> "ok"]

\* what the server may send during turn t
Responses(t) ==
  { Thinking("Here are "),
    ToolRunning(t, "terminate", TerminateArgs),
    ToolCompleted(t, "terminate", TerminateArgs, TerminateResult(TerminateArgs)),
    Message(<< "Here are " >>),
    ErrorEvent }

IsCompletedTerminate(r) ==
  r.type = "tool_call" /\ r.data.type = "terminate" /\ r.data.status = "completed"

\* the turn whose responses are rs can have ended
TurnOver(rs) ==
  /\ rs # <<>>
  /\ \/ \E k \in DOMAIN rs : rs[k].type = "error" \/ IsCompletedTerminate(rs[k])
     \/ Last(rs).type = "message"

\* the agent can emit r after rs (AgentService.ts 38-44, 95-101, 160-166,
\* 176-181, 189-199, 309-319, 337-348)
MaySend(rs, r) ==
  LET ended == \E k \in DOMAIN rs : rs[k].type = "error"
      terminated == \E k \in DOMAIN rs : IsCompletedTerminate(rs[k])
      running == \E k \in DOMAIN rs : rs[k].type = "tool_call"
  IN /\ ~ended
     /\ terminated => r.type = "message"
     /\ (r.type = "tool_call" /\ r.data.status = "running") => ~running
     /\ (r.type = "tool_call" /\ r.data.status = "completed") => (running /\ ~terminated)

\* mergeThinking
mergeThinking(prev, newContent) ==
  IF prev # <<>> /\ Last(prev).type = "thinking"
  THEN [prev EXCEPT ![Len(prev)] =
          [type |-> "thinking", data |-> [content |-> @.data.content \o newContent]]]
  ELSE Append(prev, [type |-> "thinking", data |-> [content |-> newContent]])

\* `while (... events[events.length - 1].type === 'thinking') events.pop()`
RECURSIVE PopThinking(_)
PopThinking(evs) ==
  IF evs # <<>> /\ Last(evs).type = "thinking"
  THEN PopThinking(SubSeq(evs, 1, Len(evs) - 1))
  ELSE evs

\* the updater handleStreamResponse passes to setChatEvents
handleStreamResponse(prev, response) ==
  CASE response.type = "thinking" -> mergeThinking(prev, response.data.content)
    [] response.type = "tool_call" ->
         LET found == { k \in DOMAIN prev :
                          prev[k].type = "tool_call" /\ prev[k].data.id = response.data.id }
         IN IF found # {}
            THEN [prev EXCEPT ![CHOOSE k \in found : \A j \in found : k <= j] =
                    [type |-> "tool_call", data |-> response.data]]
            ELSE Append(prev, [type |-> "tool_call", data |-> response.data])
    [] response.type = "message" ->
         LET evs == PopThinking(prev)
         IN IF /\ evs # <<>>
               /\ Last(evs).type = "message"
               /\ Last(evs).data.content = response.data.content
               /\ Last(evs).data.role = "assistant"
            THEN evs
            ELSE Append(evs, [type |-> "message",
                              data |-> [role |-> "assistant",
                                        content |-> response.data.content]])
    [] response.type = "error" -> Append(prev, [type |-> "error", data |-> response.data])

\* hasCompletedTerminate without the events of earlier turns: only what
\* follows the last message of the user counts
hasCompletedTerminateThisTurn(evs) ==
  \E k \in DOMAIN evs :
    /\ \A j \in k..Len(evs) : ~(evs[j].type = "message" /\ evs[j].data.role = "user")
    /\ evs[k].type = "tool_call"
    /\ evs[k].data.status = "completed"
    /\ "reason" \in DOMAIN evs[k].data.input /\ evs[k].data.input.reason # ""
    /\ "terminated" \in DOMAIN evs[k].data.output

\* ChatInterface.tsx 232-238
hasCompletedTerminate(evs) ==
  \E k \in DOMAIN evs :
    /\ evs[k].type = "tool_call"
    /\ evs[k].data.status = "completed"
    /\ "reason" \in DOMAIN evs[k].data.input /\ evs[k].data.input.reason # ""
    /\ "terminated" \in DOMAIN evs[k].data.output

\* the condition under which the Stop button is rendered (line 280)
StopOffered == isThinking /\ isConnected /\ ~hasCompletedTerminate(chatEvents)

InitUI ==
  /\ conversationHistory = <<>>
  /\ seenToolCallIds = {}
  /\ shouldStop = FALSE
  /\ sandbox = NoId
  /\ sessionId = NoId
  /\ pc = "idle"
  /\ iteration = 0
  /\ shouldTerminate = FALSE
  /\ isToolCall = FALSE
  /\ currentMessage = <<>>
  /\ hasContent = FALSE
  /\ toolCalls = <<>>
  /\ toolResults = <<>>
  /\ idx = 0
  /\ toolCallId = NoId
  /\ reconnectId = NoId
  /\ attempts = 0
  /\ resumes = 0
  /\ events = <<>>
  /\ rpc = "none"
  /\ used = [inputs |-> 0, calls |-> 0, uuids |-> 0, sandboxes |-> 0, gone |-> {},
             nulls |-> 0, stops |-> 0]
  /\ other = [pc |-> "none", events |-> <<>>]
  /\ path = <<>>
  /\ absolutePath = <<>>
  /\ wsRef = "null"
  /\ isConnected = FALSE
  /\ wire = <<>>
  /\ stream = <<>>
  /\ now = 0
  /\ filenames = <<>>
  /\ chatEvents = <<>>
  /\ isThinking = FALSE
  /\ received = [turns |-> 0, responses |-> <<>>]

notUiVars == <<agentVars, e2bVars, pc, cycleVars, roundVars, callVars, events, rpc,
               other, used, pathVars, clientVars, streamVars, codeVars>>

\* sendMessage
SendMessage ==
  /\ wsRef # "null" /\ isConnected
  /\ received.turns < MaxTurns
  /\ received.turns > 0 => TurnOver(received.responses)
  /\ chatEvents' = Append(chatEvents,
                          [type |-> "message",
                           data |-> [role |-> "user", content |-> << "message" >>]])
  /\ received' = [turns |-> received.turns + 1, responses |-> <<>>]
  /\ UNCHANGED <<notUiVars, isThinking>>

\* ws.onmessage: a StreamResponse of the current turn arrives
OnResponse ==
  /\ wsRef = "OPEN"
  /\ received.turns > 0
  /\ Len(received.responses) < MaxResponses
  /\ \E response \in Responses(received.turns) :
       /\ MaySend(received.responses, response)
       /\ chatEvents' = handleStreamResponse(chatEvents, response)
       /\ isThinking' = (response.type \in { "thinking", "tool_call" })
       /\ received' = [received EXCEPT !.responses = Append(@, response)]
  /\ UNCHANGED notUiVars

NextUI ==
  \/ Mount
  \/ OnOpen
  \/ OnClose
  \/ SendMessage
  \/ OnResponse

SpecUI == InitUI /\ [][NextUI]_vars

\* the agent is working on the current turn: a thinking or tool_call event
\* has been received for it and no message, error or completed terminate
Working ==
  LET rs == received.responses
  IN /\ \E k \in DOMAIN rs : rs[k].type \in { "thinking", "tool_call" }
     /\ \A k \in DOMAIN rs :
          /\ rs[k].type \notin { "message", "error" }
          /\ ~IsCompletedTerminate(rs[k])

(***************************************************************************)
(* C39.  Whenever the connection is open and the agent is working on the    *)
(* current turn, the Stop control is offered.                               *)
(* Violated: hasCompletedTerminate looks at every event of the              *)
(* conversation; once a turn has ended with a completed terminate call the  *)
(* Stop button is not rendered in any later turn.                           *)
(***************************************************************************)
C39_StopOfferedWhileWorking ==
  (isConnected /\ Working) => StopOffered


\* a is b with some elements left out
RECURSIVE IsSubsequence(_, _)
IsSubsequence(a, b) ==
  IF a = <<>> THEN TRUE
  ELSE IF b = <<>> THEN FALSE
  ELSE IF Head(a) = Head(b) THEN IsSubsequence(Tail(a), Tail(b))
  ELSE IsSubsequence(a, Tail(b))

\* the two kinds of message the Sanitizer may remove
Removable(msg) ==
  \/ msg.role = "assistant" /\ msg.tool_calls # <<>>
  \/ msg.role = "tool" /\ msg.tool_call_id # NoId

NotRemovable(msg) == ~Removable(msg)

(***************************************************************************)
(* C40.  A run of the Sanitizer leaves a history that is the old one with   *)
(* some messages left out (nothing added, nothing altered, order kept);     *)
(* every message that is not an assistant message with tool_calls or a      *)
(* tool message with a tool_call_id is kept; a consistent history is        *)
(* returned unchanged.                                                      *)
(***************************************************************************)
C40_SanitizerFrame ==
  [][ Sanitize =>
        /\ IsSubsequence(conversationHistory', conversationHistory)
        /\ SelectSeq(conversationHistory', NotRemovable)
             = SelectSeq(conversationHistory, NotRemovable)
        /\ Consistent(conversationHistory)
             => conversationHistory' = conversationHistory ]_vars

\* a history whose first message is the user's and which holds a tool
\* message no assistant message refers to: the Sanitizer has removed the
\* assistant message and kept the user message
C40_Witness ==
  /\ conversationHistory # <<>>
  /\ conversationHistory[1].role = "user"
  /\ \E k \in DOMAIN conversationHistory :
       /\ conversationHistory[k].role = "tool"
       /\ conversationHistory[k].tool_call_id \notin ReferencedIds(conversationHistory)

====
